---- MODULE Spec2Model ----
(***************************************************************************)
(* Model of the /mediainfo pipeline of the Telegram bot: the paste         *)
(* fallback chain, the image service call, the MediaInfo engine wrapper,   *)
(* analyzeMediaBuffer and the command handler that sequences them.         *)
(*                                                                         *)
(* Strings built by template literals are modelled as sequences of string  *)
(* tokens, so that "message A contains message B" is a subsequence test.   *)
(***************************************************************************)
EXTENDS Integers, Sequences, FiniteSets, TLC

VARIABLES
    \* ---- uploadToPastebin (services/pastebin.ts) ----
    pastePc,        \* "idle" | "try" | "await" | "returned"
    pasteIdx,       \* index in Providers of the block being executed
    pasteAttempts,  \* providers a fetch was issued to, in order
    pasteResponses, \* the response each of those fetches got
    pasteErrors,    \* the local array `errors`
    pasteResult,    \* the PasteResult returned
    \* ---- MediaInfo engine instance (lib/mediainfo-bundle.js) ----
    mi,             \* the instance: flags, options, read-loop locals, call log
    \* ---- analyzeMediaBuffer (services/mediainfo.ts) ----
    anPc,           \* "idle" | "create" | "pass1" | "pass2" | "returned" | "threw"
    anBuf,          \* the arguments fileBuffer (its byteLength) and fileSize
    anLog,          \* the operations analyzeMediaBuffer invoked on the instance
    anOut,          \* the value returned or the error thrown
    \* ---- mediainfoCommand (commands/mediainfo.ts) and its collaborators ----
    input,          \* the argument string of the command
    env,            \* the image-service credentials of the environment
    cmd,            \* position and locals of the running handler
    tgLog,          \* the requests made to the Telegram Bot API, with outcome
    drive,          \* GoogleDriveClient.accessToken / tokenExpiry
    now,            \* the last value read from Date.now(), in minutes
    imgFetches,     \* requests issued to the image service
    \* ---- report building (services/mediainfo-image.ts, commands/mediainfo.ts) ----
    normCalls,      \* the parseMediaInfo calls made so far: argument and value
    reply,          \* the plain-text reply being built: parts and the response
    \* ---- concurrent webhook requests (index.ts, services/mediainfo.ts) ----
    runs            \* the objects created so far and the locals of each request

pasteVars == <<pastePc, pasteIdx, pasteAttempts, pasteResponses, pasteErrors, pasteResult>>

anVars == <<mi, anPc, anBuf, anLog, anOut>>

cmdVars == <<input, env, cmd, tgLog, drive, now, imgFetches>>

repVars == <<normCalls, reply, runs>>

vars == <<pasteVars, anVars, cmdVars, repVars>>

(***************************************************************************)
(* Generic helpers                                                         *)
(***************************************************************************)
RECURSIVE Join(_, _)
\* Array.prototype.join on an array of token sequences
Join(lines, sep) ==
    IF Len(lines) = 0 THEN <<>>
    ELSE IF Len(lines) = 1 THEN lines[1]
    ELSE lines[1] \o <<sep>> \o Join(Tail(lines), sep)

\* needle occurs in hay as a contiguous run of tokens
Contains(hay, needle) ==
    \E i \in 0..(Len(hay) - Len(needle)) : SubSeq(hay, i + 1, i + Len(needle)) = needle

IsPrefixOf(s, t) == Len(s) <= Len(t) /\ SubSeq(t, 1, Len(s)) = s

NoValue == [none |-> TRUE]

Last(seq) == seq[Len(seq)]

(***************************************************************************)
(* Paste providers                                                         *)
(***************************************************************************)
\* the order of the four try-blocks of uploadToPastebin
Providers == <<"paste.rs", "dpaste.org", "0x0.st", "hastebin">>

ProviderSet == {Providers[i] : i \in 1..Len(Providers)}

\* URL prefix each provider's success predicate looks for / builds
UrlPrefix(p) ==
    CASE p = "paste.rs"   -> "https://paste.rs/"
      [] p = "dpaste.org" -> "https://dpaste.org/"
      [] p = "0x0.st"     -> "https://0x0.st/"
      [] p = "hastebin"   -> "https://hastebin.com/"

\* HTTP responses a provider may give.  A response is either a rejected
\* fetch, a non-success status, or a success status with a body.
TextBodies == {[fmt |-> "text", prefix |-> x, rest |-> "abc"] :
                 x \in {"https://paste.rs/", "https://dpaste.org/", "https://0x0.st/", ""}}
JsonBodies == {[fmt |-> "json", key |-> k] : k \in {"abc", ""}}
NetErr == [kind |-> "throw"]
BadStatus == [kind |-> "http", ok |-> FALSE, status |-> "503"]
GoodStatus(b) == [kind |-> "http", ok |-> TRUE, status |-> "200", body |-> b]
PasteResponses == {NetErr, BadStatus} \cup {GoodStatus(b) : b \in TextBodies \cup JsonBodies}

Failure(msg) == [success |-> FALSE, error |-> msg]
Success(u) == [success |-> TRUE, url |-> u]

\* a success predicate that forgets the startsWith test
UploadTextNoShape(p, r) ==
    IF r.kind = "throw" THEN Failure(<<"fetch failed">>)
    ELSE IF ~r.ok THEN Failure(<<p, " returned ", r.status>>)
    ELSE IF r.body.fmt = "text"
         THEN Success(<<r.body.prefix, r.body.rest>>)
    ELSE Failure(<<"Invalid response from ", p>>)

\* uploadToPasteRs / uploadToDpaste / uploadTo0x0: text body must start with
\* the provider's own prefix
UploadText(p, r) ==
    IF r.kind = "throw" THEN Failure(<<"fetch failed">>)
    ELSE IF ~r.ok THEN Failure(<<p, " returned ", r.status>>)
    ELSE IF r.body.fmt = "text" /\ r.body.prefix = UrlPrefix(p)
         THEN Success(<<r.body.prefix, r.body.rest>>)
    ELSE Failure(<<"Invalid response from ", p>>)

\* uploadToHastebin: JSON body with a truthy key
UploadJson(p, r) ==
    IF r.kind = "throw" THEN Failure(<<"fetch failed">>)
    ELSE IF ~r.ok THEN Failure(<<p, " returned ", r.status>>)
    ELSE IF r.body.fmt # "json" THEN Failure(<<"Unexpected token">>)
    ELSE IF r.body.key # "" THEN Success(<<UrlPrefix(p), r.body.key>>)
    ELSE Failure(<<"Invalid response from ", p>>)

\* the provider-specific upload function called by block p
UploadTo(p, r) == IF p = "hastebin" THEN UploadJson(p, r) ELSE UploadText(p, r)

\* `${provider}: ${error}` pushed on errors
ErrLine(p, res) == <<p, ": ">> \o res.error

AllFailedNoJoin(errors) == Failure(<<"All paste services failed: ">> \o errors[Len(errors)])

\* the aggregated failure of lines 71-74
AllFailed(errors) == Failure(<<"All paste services failed: ">> \o Join(errors, "; "))

\* fetch(...) of block pasteIdx is issued
PasteFetch ==
    /\ pastePc = "try"
    /\ pasteAttempts' = Append(pasteAttempts, Providers[pasteIdx])
    /\ pastePc' = "await"
    /\ UNCHANGED <<pasteIdx, pasteResponses, pasteErrors, pasteResult, anVars, cmdVars, repVars>>

\* the awaited fetch settles with r; the rest of the block runs, up to the
\* next fetch or the return
PasteSettle(r) ==
    /\ pastePc = "await"
    /\ LET p   == Providers[pasteIdx]
           res == UploadTo(p, r)
           errs == Append(pasteErrors, ErrLine(p, res))
       IN /\ pasteResponses' = Append(pasteResponses, r)
          /\ IF res.success
               THEN /\ pasteResult' = res
                    /\ pastePc' = "returned"
                    /\ UNCHANGED <<pasteIdx, pasteErrors>>
             ELSE IF pasteIdx < Len(Providers)
               THEN /\ pasteErrors' = errs
                    /\ pasteIdx' = pasteIdx + 1
                    /\ pastePc' = "try"
                    /\ UNCHANGED pasteResult
             ELSE /\ pasteErrors' = errs
                  /\ pasteResult' = AllFailed(errs)
                  /\ pastePc' = "returned"
                  /\ UNCHANGED pasteIdx
    /\ UNCHANGED <<pasteAttempts, anVars, cmdVars, repVars>>

PasteRespond == \E r \in PasteResponses : PasteSettle(r)

PasteIdle ==
    /\ pastePc = "idle"
    /\ pasteIdx = 1
    /\ pasteAttempts = <<>>
    /\ pasteResponses = <<>>
    /\ pasteErrors = <<>>
    /\ pasteResult = NoValue

\* uploadToPastebin has just been called
PasteCalled ==
    /\ pastePc = "try"
    /\ pasteIdx = 1
    /\ pasteAttempts = <<>>
    /\ pasteResponses = <<>>
    /\ pasteErrors = <<>>
    /\ pasteResult = NoValue



(***************************************************************************)
(* MediaInfo engine wrapper                                                *)
(***************************************************************************)
\* sizes are counted in MiB
ChunkSize == 5
MaxCalls == 3
MaxReads == 4
SeekTargets == {0, 7}
NoSeek == -1

Min(a, b) == IF a < b THEN a ELSE b
Max(a, b) == IF a > b THEN a ELSE b

\* TypedArray.prototype.subarray(begin, end) on an array of n bytes: the
\* [from, to) range actually viewed
Subarray(begin, end, n) ==
    LET rel(i) == IF i < 0 THEN Max(n + i, 0) ELSE Min(i, n)
        from == rel(begin)
        to == rel(end)
    IN [from |-> from, len |-> Max(to - from, 0)]

ReadChunkUnclipped(len, chunkSize, offset) == [from |-> offset, len |-> Max(chunkSize, 0)]

\* the closure readChunk of analyzeMediaBuffer over a buffer of len bytes
ReadChunk(len, chunkSize, offset) ==
    IF offset >= len THEN [from |-> offset, len |-> 0]
    ELSE Subarray(offset, Min(offset + chunkSize, len), len)

NoInstance == [exists |-> FALSE]

\* new MediaInfo(module, options) followed by the option assignments of
\* analyzeMediaBuffer
NewInstance ==
    [exists |-> TRUE, isAnalyzing |-> FALSE, format |-> "object", chunkSize |-> ChunkSize,
     resets |-> 0, closes |-> 0, afterClose |-> 0,
     loop |-> "idle", owner |-> 0, offset |-> 0, fileSize |-> 0, chunk |-> NoValue,
     calls |-> <<>>, nreads |-> 0, lastRead |-> NoValue, seekTo |-> NoSeek]

\* every engine operation on a closed instance is counted
Touch(m) == IF m.closes > 0 THEN [m EXCEPT !.afterClose = @ + 1] ELSE m

\* MediaInfo.reset
Reset(m) == [Touch(m) EXCEPT !.resets = @ + 1]

\* MediaInfo.close
Close(m) == [m EXCEPT !.closes = @ + 1]

BusyError == "cannot start a new analysis while another is in progress"

Call(sig, mode) == [sig |-> sig, mode |-> mode, status |-> "running", err |-> "none", result |-> NoValue]

\* the promise wrapper's resultCb clears the flag before it settles
ResultCbFlag(sig, flag) == IF sig = "promise" THEN FALSE ELSE flag

\* callback(null, error) for call c
Reject(m, c, err) ==
    [m EXCEPT !.calls[c].status = "rejected", !.calls[c].err = err,
              !.isAnalyzing = ResultCbFlag(m.calls[c].sig, @)]

\* an exception leaves analyzeData: the promise executor turns it into a
\* rejection without going through resultCb, the callback form lets it escape
Throw(m, c, err) ==
    [m EXCEPT !.calls[c].status = IF m.calls[c].sig = "promise" THEN "rejected" ELSE "threw",
              !.calls[c].err = err, !.loop = "idle", !.owner = 0, !.chunk = NoValue]

\* callback(result) for call c
Resolve(m, c, res) ==
    IF m.calls[c].sig = "promise" /\ res.body = "empty"
    THEN [m EXCEPT !.calls[c].status = "rejected", !.calls[c].err = "Unknown error",
                   !.isAnalyzing = FALSE]
    ELSE [m EXCEPT !.calls[c].status = "resolved", !.calls[c].result = res,
                   !.isAnalyzing = ResultCbFlag(m.calls[c].sig, @)]

BusyCheckMissing(m) == FALSE

\* the guard of line 355
BusyCheck(m) == m.isAnalyzing

\* analyzeData(size, readChunk[, callback]) up to the first getChunk.
\* trap: the WASM call inside reset() aborts.
AnalyzeData(m0, sig, mode, size, trap) ==
    LET c == Len(m0.calls) + 1
        m == [Touch(m0) EXCEPT !.calls = Append(@, Call(sig, mode))]
    IN IF BusyCheck(m) THEN Reject(m, c, BusyError)
       ELSE IF trap THEN [Throw(m, c, "engine") EXCEPT !.loop = m.loop, !.owner = m.owner, !.chunk = m.chunk]
       ELSE [Reset(m) EXCEPT !.isAnalyzing = TRUE, !.offset = 0, !.fileSize = size,
                             !.loop = "getChunk", !.owner = c, !.chunk = NoValue,
                             !.nreads = 0, !.lastRead = NoValue, !.seekTo = NoSeek]

\* getChunk: safeSize and the readChunk call
GetChunk(m, bufLen, fails) ==
    LET safeSize == Min(m.chunkSize, m.fileSize - m.offset)
        data == ReadChunk(bufLen, safeSize, m.offset)
        rd == [call |-> m.owner, size |-> safeSize, offset |-> m.offset, data |-> data]
        m1 == [Touch(m) EXCEPT !.nreads = @ + 1, !.lastRead = rd]
    IN IF fails
       THEN [Reject(m1, m.owner, "read") EXCEPT !.isAnalyzing = FALSE, !.loop = "idle", !.owner = 0]
       ELSE [m1 EXCEPT !.chunk = data, !.loop = "haveChunk"]

NextOffsetLinear(offset, len, seekTo) == offset + len

\* the offset update of continueBuffer (lines 409-415)
NextOffset(offset, len, seekTo) == IF seekTo = NoSeek THEN offset + len ELSE seekTo

\* finalize(): openBufferFinalize, inform, callback, finally
Finalize(m, inf) ==
    LET c == m.owner
        done == [m EXCEPT !.loop = "idle", !.owner = 0, !.chunk = NoValue]
    IN IF inf = "trap" \/ (inf = "empty" /\ m.format = "object")
       THEN [Throw(done, c, "engine") EXCEPT !.isAnalyzing = FALSE]
       ELSE [Resolve(done, c, [format |-> m.format, body |-> inf]) EXCEPT !.isAnalyzing = FALSE]

\* an exception inside readNextChunk: it escapes analyzeData when readChunk
\* was synchronous, and reaches the .catch of line 397 when it was a promise
ChunkTrap(m) ==
    IF m.calls[m.owner].mode = "sync"
    THEN Throw(m, m.owner, "engine")
    ELSE [Reject(m, m.owner, "engine") EXCEPT !.isAnalyzing = FALSE, !.loop = "idle",
                                               !.owner = 0, !.chunk = NoValue]

\* readNextChunk(data): continueBuffer, then getChunk or finalize.
\* step: what openBufferContinue did; seekTo: openBufferContinueGotoGet;
\* inf: what inform() gave when the loop finalizes
ReadNextChunk(m0, step, seekTo, inf) ==
    LET m == Touch(m0) IN
    IF m.chunk.len = 0 THEN Finalize(m, inf)
    ELSE IF step = "trap" THEN ChunkTrap(m)
    ELSE IF step = "done" THEN Finalize(m, inf)
    ELSE [m EXCEPT !.offset = NextOffset(m.offset, m.chunk.len, seekTo),
                   !.seekTo = seekTo,   \* the last value of openBufferContinueGotoGet
                   !.loop = "getChunk", !.chunk = NoValue]

EngineSteps == {"more", "done", "trap"}
InformOutcomes == {"ok", "empty", "trap"}

SettledAtOnce(c) == TRUE

\* the promise of call c has settled, so an `await` on it resumes
Settled(c) == mi.calls[c].status # "running"

\* a synchronous analysis runs to completion before anything else
SyncRunning == mi.exists /\ mi.loop # "idle" /\ mi.calls[mi.owner].mode = "sync"

\* ---- actions over the instance ----
MiGetChunk ==
    /\ mi.exists /\ mi.loop = "getChunk"
    /\ \E fails \in BOOLEAN :
         /\ fails => (anPc = "idle")   \* analyzeMediaBuffer's own readChunk cannot throw
         /\ mi' = GetChunk(mi, anBuf.len, fails)
    /\ UNCHANGED <<anPc, anBuf, anLog, anOut, pasteVars, cmdVars, repVars>>

MiReadNextChunk ==
    /\ mi.exists /\ mi.loop = "haveChunk"
    /\ \E step \in EngineSteps, seekTo \in {NoSeek} \cup SeekTargets, inf \in InformOutcomes :
         /\ (step = "more" /\ mi.chunk.len > 0) => mi.nreads < MaxReads
         /\ (step # "more" \/ mi.chunk.len = 0) => seekTo = NoSeek
         /\ (step = "more" /\ mi.chunk.len > 0) => inf = "ok"
         /\ (step = "trap" /\ mi.chunk.len > 0) => inf = "ok"
         /\ mi' = ReadNextChunk(mi, step, seekTo, inf)
    /\ UNCHANGED <<anPc, anBuf, anLog, anOut, pasteVars, cmdVars, repVars>>

\* a client of the instance calls analyzeData
MiClientCall ==
    /\ anPc = "idle"
    /\ mi.exists /\ ~SyncRunning
    /\ Len(mi.calls) < MaxCalls
    /\ \E sig \in {"promise", "callback"}, mode \in {"sync", "async"}, trap \in BOOLEAN :
         mi' = AnalyzeData(mi, sig, mode, anBuf.size, trap)
    /\ UNCHANGED <<anPc, anBuf, anLog, anOut, pasteVars, cmdVars, repVars>>

Windows == {[len |-> l, size |-> z] : l \in {0, 3, 10}, z \in {0, 3, 10, 12}}
EngineWindows == {w \in Windows : w.size = w.len \/ (w.len > 0 /\ w.size = 12)}

AnIdle == anPc = "idle" /\ anLog = <<>> /\ anOut = NoValue

(***************************************************************************)
(* analyzeMediaBuffer                                                      *)
(***************************************************************************)
LogOp(op, fmt) == [op |-> op, format |-> fmt]

ExitTryNoFinally(m, threw) == IF threw THEN m ELSE Close(m)

\* leaving the try block of lines 365-390: the finally clause
ExitTry(m, threw) == Close(m)

\* `await createMediaInfo()` settles; on success the function runs on to the
\* first analyzeData call (object mode)
AnCreated ==
    /\ anPc = "create"
    /\ \/ /\ anPc' = "threw"
          /\ anOut' = [error |-> "create"]
          /\ UNCHANGED <<mi, anLog>>
       \/ \E trap \in BOOLEAN :
            /\ mi' = AnalyzeData([NewInstance EXCEPT !.format = "object"],
                                 "promise", "sync", anBuf.size, trap)
            /\ anLog' = <<LogOp("analyzeData", "object")>>
            /\ anPc' = "pass1"
            /\ UNCHANGED anOut
    /\ UNCHANGED <<anBuf, pasteVars, cmdVars, repVars>>

\* the await of the object pass resumes: reset, then the text pass
AnAfterPass1 ==
    /\ anPc = "pass1" /\ Settled(1)
    /\ IF mi.calls[1].status # "resolved"
       THEN /\ mi' = ExitTry(mi, TRUE)
            /\ anLog' = Append(anLog, LogOp("close", mi.format))
            /\ anPc' = "threw"
            /\ anOut' = [error |-> mi.calls[1].err]
       ELSE \E resetTrap \in BOOLEAN, trap \in BOOLEAN :
            IF resetTrap
            THEN /\ trap = FALSE
                 /\ mi' = ExitTry(Touch(mi), TRUE)
                 /\ anLog' = anLog \o <<LogOp("reset", mi.format), LogOp("close", mi.format)>>
                 /\ anPc' = "threw"
                 /\ anOut' = [error |-> "engine"]
            ELSE /\ mi' = AnalyzeData([Reset(mi) EXCEPT !.format = "text"],
                                      "promise", "sync", anBuf.size, trap)
                 /\ anLog' = anLog \o <<LogOp("reset", mi.format), LogOp("analyzeData", "text")>>
                 /\ anPc' = "pass2"
                 /\ UNCHANGED anOut
    /\ UNCHANGED <<anBuf, pasteVars, cmdVars, repVars>>

\* the await of the text pass resumes: inform, return, finally close
AnAfterPass2 ==
    /\ anPc = "pass2" /\ Settled(2)
    /\ IF mi.calls[2].status # "resolved"
       THEN /\ mi' = ExitTry(mi, TRUE)
            /\ anLog' = Append(anLog, LogOp("close", mi.format))
            /\ anPc' = "threw"
            /\ anOut' = [error |-> mi.calls[2].err]
       ELSE \E inf \in InformOutcomes :
            /\ anLog' = anLog \o <<LogOp("inform", mi.format), LogOp("close", mi.format)>>
            /\ IF inf = "trap"
               THEN /\ mi' = ExitTry(Touch(mi), TRUE)
                    /\ anPc' = "threw"
                    /\ anOut' = [error |-> "engine"]
               ELSE /\ mi' = ExitTry(Touch(mi), FALSE)
                    /\ anPc' = "returned"
                    /\ anOut' = [result |-> mi.calls[1].result,
                                 text |-> [format |-> mi.format, body |-> inf],
                                 bufferSize |-> anBuf.len]
    /\ UNCHANGED <<anBuf, pasteVars, cmdVars, repVars>>

\* analyzeMediaBuffer has just been called on a byte window
AnCalled(w) == anPc = "create" /\ anBuf = w /\ mi = NoInstance /\ anLog = <<>> /\ anOut = NoValue

(***************************************************************************)
(* Source resolver                                                         *)
(***************************************************************************)
\* An argument string, described by what the resolver looks at: whether
\* new URL() accepts it, its scheme and host, whether the trimmed string
\* consists of id characters only and how long it is, and which of the
\* extractFileId patterns occur in it (with the id each one captures).
Arg(parses, scheme, host, idChars, len, pats) ==
    [empty |-> FALSE, parses |-> parses, scheme |-> scheme, host |-> host,
     idChars |-> idChars, len |-> len, pats |-> pats]

EmptyArgs == [empty |-> TRUE]
DirectLink == Arg(TRUE, "https:", <<"example.com">>, FALSE, 29, <<>>)
DriveLink == Arg(TRUE, "https:", <<"drive.google.com">>, FALSE, 58,
                 <<[pat |-> "/file/d/", id |-> "id-file"], [pat |-> "/d/", id |-> "id-d"]>>)
BareId == Arg(FALSE, "", <<>>, TRUE, 33, <<>>)
ShortWord == Arg(FALSE, "", <<>>, TRUE, 5, <<>>)
FtpLink == Arg(TRUE, "ftp:", <<"example.com">>, FALSE, 27, <<>>)
\* https://drive.google.com.example.org/video.mkv
LookalikeLink == Arg(TRUE, "https:", <<"drive.google.com", ".example.org">>, FALSE, 46, <<>>)

Inputs == {EmptyArgs, DirectLink, DriveLink, BareId, ShortWord, FtpLink, LookalikeLink}

\* lines 44-46: two substring tests and one equality; a host is a sequence
\* of tokens
HostIsDrive(host) ==
    \/ Contains(host, <<"drive.google.com">>)
    \/ Contains(host, <<"docs.google.com">>)
    \/ host = <<"drive.usercontent.google.com">>

\* isDirectUrl
IsDirectUrl(a) ==
    /\ a.parses
    /\ a.scheme \in {"http:", "https:"}
    /\ ~HostIsDrive(a.host)

MinIdLen == 25
PatternOrder == <<"/file/d/", "/open?id=", "/uc?id=", "id=", "/folders/", "/d/">>
NoId == "null"

\* extractFileId: the bare-id test, then the first pattern of PatternOrder
\* that occurs in the link
ExtractFileId(a) ==
    IF a.idChars /\ a.len >= MinIdLen THEN "id-bare"
    ELSE LET hits == {i \in 1..Len(PatternOrder) :
                        \E j \in 1..Len(a.pats) : a.pats[j].pat = PatternOrder[i]}
         IN IF hits = {} THEN NoId
            ELSE LET first == CHOOSE i \in hits : \A k \in hits : i <= k
                     j == CHOOSE j \in 1..Len(a.pats) : a.pats[j].pat = PatternOrder[first]
                 IN a.pats[j].id

(***************************************************************************)
(* Telegram client                                                         *)
(***************************************************************************)
\* the Message object the Bot API returns for a sent message
Message(id) == [message_id |-> id, text |-> "sent"]

\* obj?.field of a value that may be undefined or lack the field
Field(obj, f) == IF f \in DOMAIN obj THEN obj[f] ELSE NoValue

NoMessageId == 0

\* loadingResult?.result?.message_id (line 192)
MessageIdOf(loadingResult) ==
    LET r == Field(loadingResult, "result")
    IN IF "message_id" \in DOMAIN r THEN r.message_id ELSE NoMessageId

SendMessage(text) == [method |-> "sendMessage", message_id |-> NoMessageId, text |-> text]
EditMessage(id, text) == [method |-> "editMessageText", message_id |-> id, text |-> text]
DeleteMessage(id) == [method |-> "deleteMessage", message_id |-> id, text |-> NoValue]
SendDocument(url, caption) ==
    [method |-> "sendDocument", message_id |-> NoMessageId, text |-> caption, document |-> url]

\* the Bot API cannot act on a request that names no message
Answerable(req) ==
    req.method \in {"editMessageText", "deleteMessage"} => req.message_id # NoMessageId

Creates(req) == req.method \in {"sendMessage", "sendDocument"}

\* number of messages the chat has received so far
SentCount(log) == Cardinality({i \in 1..Len(log) : log[i].ok /\ Creates(log[i].req)})

\* user-facing texts
Text(kind) == [kind |-> kind]
ErrorText(msg) == [kind |-> "analysis-failed", detail |-> msg]

(***************************************************************************)
(* Image service                                                           *)
(***************************************************************************)
Undefined == "undefined"
Falsy(v) == v = Undefined \/ v = ""

CredsMissingBoth(userId, apiKey) == Falsy(userId) /\ Falsy(apiKey)

\* the guard of generateMediaInfoImage (line 526)
CredsMissing(userId, apiKey) == Falsy(userId) \/ Falsy(apiKey)

EnvConfigs == {[HCTI_USER_ID |-> u, HCTI_API_KEY |-> k] :
                 u \in {Undefined, "", "user"}, k \in {Undefined, "key"}}

ImageBodies == {[fmt |-> "json", url |-> "https://hcti.io/v1/image/1"],
                [fmt |-> "json", url |-> ""],
                [fmt |-> "text"]}
ImageResponses == {NetErr, BadStatus} \cup {GoodStatus(b) : b \in ImageBodies}

\* generateMediaInfoImage after the fetch settled with r
ImageResult(r) ==
    IF r.kind = "throw" THEN Failure(<<"fetch failed">>)
    ELSE IF ~r.ok THEN Failure(<<"HCTI API returned ", r.status>>)
    ELSE IF r.body.fmt # "json" THEN Failure(<<"Unexpected token">>)
    ELSE IF r.body.url # "" THEN Success(r.body.url)
    ELSE Failure(<<"Invalid response from HCTI API">>)

NotConfigured == Failure(<<"Image generation API credentials not configured">>)

(***************************************************************************)
(* Partial downloader                                                      *)
(***************************************************************************)
MaxDownloadSize == 10
FileSizes == {0, 3, 12}
NoLength == -1

NotFound == [kind |-> "http", ok |-> FALSE, status |-> "404"]

\* HEAD responses of a server whose file has z bytes: failure, or success
\* with or without Content-Length
HeadResponses(z) == {NetErr, NotFound} \cup
                    {[kind |-> "http", ok |-> TRUE, length |-> l] : l \in {NoLength, z}}

\* the size learnt from the HEAD request (lines 91-102)
SizeFromHead(r) ==
    IF r.kind = "http" /\ r.ok /\ r.length # NoLength THEN r.length ELSE 0

RangeAlways(fileSize, maxBytes) == TRUE

\* whether a Range header is sent (mediainfo.ts 106, google-drive.ts 279)
RangeNeeded(fileSize, maxBytes) == fileSize > maxBytes

\* GET responses of a server whose file had z bytes at the HEAD request: the
\* whole body with status 200, or, to a range request, the first bytes with
\* status 206 and the total of the file as it is then (it may have grown)
GetResponses(z, range) ==
    {NetErr, NotFound}
    \cup {[kind |-> "http", ok |-> TRUE, status |-> "200", bodyLen |-> z,
           length |-> IF withLength THEN z ELSE NoLength,
           total |-> NoLength] : withLength \in BOOLEAN}
    \cup (IF range /\ z > MaxDownloadSize
          THEN {[kind |-> "http", ok |-> TRUE, status |-> "206",
                 bodyLen |-> MaxDownloadSize, length |-> MaxDownloadSize, total |-> t] :
                   t \in {z, z + 3}}
          ELSE {})

Null == [null |-> TRUE]

\* downloadFromUrl from the GET response on (lines 110-145); fileSize is the
\* size learnt from HEAD
DownloadFromUrl(fileSize, r) ==
    IF r.kind = "throw" \/ (~r.ok /\ r.status # "206") THEN Null
    ELSE LET fs == IF fileSize # 0 THEN fileSize
                   ELSE IF r.total # NoLength THEN r.total
                   ELSE IF r.length # NoLength THEN r.length
                   ELSE 0
         IN [len |-> r.bodyLen, size |-> IF fs # 0 THEN fs ELSE r.bodyLen]

\* ---- Google Drive client ----
TokenBuffer == 5
ClockValues == {0, 56}
NoToken == "null"
NewDrive == [accessToken |-> NoToken, tokenExpiry |-> 0]

TokenResponses == {NetErr, [kind |-> "http", token |-> FALSE]} \cup
                  {[kind |-> "http", token |-> TRUE, expires_in |-> e] : e \in {3, 61}}

TokenValidToExpiry(d, t) == d.accessToken # NoToken /\ t < d.tokenExpiry

\* the cache test of getAccessToken (line 28)
TokenValid(d, t) == d.accessToken # NoToken /\ t < d.tokenExpiry - TokenBuffer

FolderMime == "application/vnd.google-apps.folder"
NoSize == -1
Metadatas == {[mimeType |-> FolderMime, size |-> NoSize]} \cup
             {[mimeType |-> "video/x-matroska", size |-> z] : z \in {NoSize} \cup FileSizes}
MetaResponses == {NetErr, NotFound} \cup {[kind |-> "http", ok |-> TRUE, meta |-> m] : m \in Metadatas}

ParseSizeDefaultOne(m) == IF m.size = NoSize THEN 1 ELSE m.size

\* parseInt(metadata.size || '0', 10)
ParseSize(m) == IF m.size = NoSize THEN 0 ELSE m.size

\* the content responses Drive may give for a file of fileSize bytes
DriveGetResponses(fileSize, range) ==
    {NetErr, NotFound}
    \cup {[kind |-> "http", ok |-> TRUE, status |-> "200", bodyLen |-> fileSize]}
    \cup (IF range THEN {[kind |-> "http", ok |-> TRUE, status |-> "206",
                          bodyLen |-> Min(fileSize, MaxDownloadSize)]}
          ELSE {})

\* downloadFileContent from the content response on (lines 285-304)
DownloadFileContent(fileSize, r) ==
    IF r.kind = "throw" \/ (~r.ok /\ r.status # "206") THEN Null
    ELSE [len |-> r.bodyLen, size |-> fileSize]

(***************************************************************************)
(* Result normalizer (services/mediainfo-image.ts)                         *)
(***************************************************************************)
\* Strings are sequences of tokens; numbers are printed digit by digit.
DigitChar == <<"0", "1", "2", "3", "4", "5", "6", "7", "8", "9">>

RECURSIVE Digits(_)
\* String(n) for an integer n >= 0
Digits(n) == IF n < 10 THEN <<DigitChar[n + 1]>>
             ELSE Digits(n \div 10) \o <<DigitChar[(n % 10) + 1]>>

Abs(x) == IF x < 0 THEN -x ELSE x

MathRoundDown(num, den) == num \div den

\* Math.round(num / den), num >= 0, den > 0
MathRound(num, den) == (2 * num + den) \div (2 * den)

RECURSIVE Pad(_, _)
\* the last `places` decimal digits of n, with leading zeros
Pad(n, places) == IF places = 0 THEN <<>>
                  ELSE Pad(n \div 10, places - 1) \o <<DigitChar[(n % 10) + 1]>>

\* (num / den).toFixed(places), places in {1, 2}; the quotients drawn are
\* not halfway between two results
ToFixed(num, den, places) ==
    LET scale == IF places = 1 THEN 10 ELSE 100
        n == (2 * num * scale + den) \div (2 * den)
    IN Digits(n \div scale) \o <<".">> \o Pad(n % scale, places)

Unknown == <<"Unknown">>

\* formatBitrate
FormatBitrate(bps) ==
    IF bps >= 1000000 THEN ToFixed(bps, 1000000, 1) \o <<" ", "Mb/s">>
    ELSE IF bps >= 1000 THEN Digits(MathRound(bps, 1000)) \o <<" ", "kb/s">>
    ELSE Digits(bps) \o <<" ", "b/s">>

\* formatDuration
FormatDuration(ms) ==
    LET totalSeconds == ms \div 1000
        hours == totalSeconds \div 3600
        minutes == (totalSeconds % 3600) \div 60
        seconds == totalSeconds % 60
    IN IF hours > 0 THEN Digits(hours) \o <<" ", "h", " ">> \o Digits(minutes) \o <<" ", "min">>
       ELSE Digits(minutes) \o <<" ", "min", " ">> \o Digits(seconds) \o <<" ", "sec">>

\* formatFileSize, for sizes below 10^7 bytes
FormatFileSize(bytes) ==
    IF bytes = 0 THEN <<"0", " ", "B">>
    ELSE IF bytes < 1024 THEN ToFixed(bytes, 1, 2) \o <<" ", "B">>
    ELSE IF bytes < 1024 * 1024 THEN ToFixed(bytes, 1024, 2) \o <<" ", "KiB">>
    ELSE ToFixed(bytes, 1024 * 1024, 2) \o <<" ", "MiB">>

\* a raw track: '@type' and whichever fields the engine reported
Has(t, f) == f \in DOMAIN t
\* `track.f ? Number(track.f) : 0` for a numeric field
Num(t, f) == IF Has(t, f) THEN t[f] ELSE 0
\* truthiness of a text field
HasText(t, f) == Has(t, f) /\ t[f] # <<>>

RECURSIVE Gcd(_, _)
Gcd(a, b) == IF b = 0 THEN a ELSE Gcd(b, a % b)

\* Math.abs(width / height - r) < 0.1, with r given in hundredths
Near(width, height, r100) == Abs(100 * width - r100 * height) < 10 * height

\* lines 174-198
AspectRatio(width, height) ==
    IF width = 0 \/ height = 0 THEN Unknown
    ELSE LET divisor == Gcd(width, height)
             ratioW == width \div divisor
             ratioH == height \div divisor
         IN IF (ratioW = 16 /\ ratioH = 9) \/ (ratioW = 64 /\ ratioH = 36) THEN <<"1", "6", ":", "9">>
            ELSE IF (ratioW = 4 /\ ratioH = 3) \/ (ratioW = 16 /\ ratioH = 12) THEN <<"4", ":", "3">>
            ELSE IF ratioW = 21 /\ ratioH = 9 THEN <<"2", "1", ":", "9">>
            ELSE IF Near(width, height, 235) THEN <<"2", ".", "3", "5", ":", "1">>
            ELSE IF Near(width, height, 239) THEN <<"2", ".", "3", "9", ":", "1">>
            ELSE IF Near(width, height, 185) THEN <<"1", ".", "8", "5", ":", "1">>
            ELSE IF Near(width, height, 178) THEN <<"1", "6", ":", "9">>
            ELSE Digits(ratioW) \o <<":">> \o Digits(ratioH)

\* lines 200-208
VideoOf(t) ==
    LET width == Num(t, "Width")
        height == Num(t, "Height")
    IN [codec |-> IF HasText(t, "Format") THEN t.Format
                  ELSE IF HasText(t, "Codec") THEN t.Codec ELSE Unknown,
        resolution |-> IF width # 0 /\ height # 0
                       THEN Digits(width) \o <<"x">> \o Digits(height) ELSE Unknown,
        aspectRatio |-> AspectRatio(width, height),
        frameRate |-> IF HasText(t, "FrameRate") THEN t.FrameRate ELSE Unknown,
        frameCount |-> IF Num(t, "FrameCount") # 0 THEN Digits(t.FrameCount) ELSE Unknown,
        bitrate |-> IF Num(t, "BitRate") # 0 THEN FormatBitrate(t.BitRate) ELSE Unknown,
        bitDepth |-> IF Num(t, "BitDepth") # 0 THEN Digits(t.BitDepth) \o <<" ", "bits">>
                     ELSE <<"8", " ", "bits">>]

ChannelStrBare(channels) == Digits(channels)

\* lines 213-217
ChannelStr(channels) ==
    CASE channels = 1 -> <<"1", "ch">>
      [] channels = 2 -> <<"2", "ch">>
      [] channels = 6 -> <<"6", "ch">>
      [] channels = 8 -> <<"8", "ch">>
      [] OTHER -> Digits(channels) \o <<"ch">>

\* lines 220-234
AudioFormat(t) ==
    LET audioFormat == IF HasText(t, "Format") THEN t.Format ELSE Unknown IN
    IF ~HasText(t, "Format_Profile") THEN audioFormat
    ELSE IF audioFormat = <<"MLP FBA">> \/ Contains(audioFormat, <<"TrueHD">>)
    THEN <<"MLP FBA">> \o
         (IF Has(t, "Format_Commercial_IfAny") /\ Contains(t.Format_Commercial_IfAny, <<"Atmos">>)
          THEN <<" (Dolby Atmos)">> ELSE <<>>)
    ELSE IF audioFormat = <<"DTS">> /\ Contains(t.Format_Profile, <<"MA">>) THEN <<"DTS-HD MA">>
    ELSE audioFormat

\* toUpperCase / toLowerCase of one token
Upper(tok) ==
    CASE tok = "e" -> "E" [] tok = "u" -> "U" [] tok = "j" -> "J"
      [] tok = "ass" -> "ASS" [] tok = "SubRip" -> "SUBRIP" [] tok = "VobSub" -> "VOBSUB"
      [] OTHER -> tok
Lower(tok) ==
    CASE tok = "E" -> "e" [] tok = "NG" -> "ng"
      [] OTHER -> tok

\* String(track.Language || 'und')
LanguageOf(t) == IF HasText(t, "Language") THEN t.Language ELSE <<"u", "nd">>

\* lang.charAt(0).toUpperCase() + lang.slice(1); the first token is one letter
Capitalize(lang) == <<Upper(Head(lang))>> \o Tail(lang)

\* getLanguageFlag, with the table entries of the languages drawn
GetLanguageFlag(lang) ==
    LET normalized == [i \in 1..Len(lang) |-> Lower(lang[i])] IN
    CASE normalized = <<"e", "ng">> -> "flag-US"
      [] normalized = <<"j", "pn">> -> "flag-JP"
      [] OTHER -> "flag-white"

\* lines 254-259
SubtitleFormat(subFormat) ==
    LET up == [i \in 1..Len(subFormat) |-> Upper(subFormat[i])] IN
    IF Contains(up, <<"UTF-8">>) THEN <<"UTF-8">>
    ELSE IF Contains(up, <<"ASS">>) THEN <<"ASS">>
    ELSE IF Contains(up, <<"SRT">>) THEN <<"SRT">>
    ELSE IF Contains(up, <<"PGS">>) THEN <<"PGS">>
    ELSE IF Contains(up, <<"VOBSUB">>) THEN <<"VobSub">>
    ELSE subFormat

DefaultReportBlank(filename) ==
    [filename |-> filename,
     general |-> [container |-> <<>>, size |-> <<>>, runtime |-> <<>>, bitrate |-> <<>>],
     video |-> Null, audio |-> <<>>, subtitles |-> <<>>]

\* lines 132-143: the report parseMediaInfo starts from
DefaultReport(filename) ==
    [filename |-> filename,
     general |-> [container |-> Unknown, size |-> Unknown, runtime |-> Unknown, bitrate |-> Unknown],
     video |-> Null, audio |-> <<>>, subtitles |-> <<>>]

InitialIndexCarried == Len(normCalls)

\* lines 149-150: audioIndex and subtitleIndex start at
InitialIndex == 0

PostIncrementStuck(index) == index

\* audioIndex++ and subtitleIndex++ (lines 237, 253): the counter afterwards
PostIncrement(index) == index + 1

\* lines 236-245
AudioOf(t, index) ==
    LET d == [index |-> index,
              language |-> Capitalize(LanguageOf(t)),
              flag |-> GetLanguageFlag(LanguageOf(t)),
              codec |-> AudioFormat(t),
              channels |-> ChannelStr(IF Num(t, "Channels") # 0 THEN t.Channels ELSE 2),
              bitrate |-> IF Num(t, "BitRate") # 0 THEN FormatBitrate(t.BitRate)
                          ELSE <<"Variable">>,
              isDefault |-> (Has(t, "Default") /\ t.Default = "Yes")]
    IN IF HasText(t, "Title") THEN [title |-> t.Title] @@ d ELSE d

\* lines 249-263
SubtitleOf(t, index) ==
    LET subFormat == IF HasText(t, "Format") THEN t.Format
                     ELSE IF HasText(t, "CodecID") THEN t.CodecID ELSE Unknown
        d == [index |-> index,
              format |-> SubtitleFormat(subFormat),
              language |-> Capitalize(LanguageOf(t)),
              flag |-> GetLanguageFlag(LanguageOf(t))]
    IN IF HasText(t, "Title") THEN [title |-> t.Title] @@ d ELSE d

\* one turn of the loop of lines 152-266; st holds parsed and the counters
TrackStep(st, t) ==
    CASE t.type = "General" ->
           [st EXCEPT !.parsed.general =
              [container |-> IF HasText(t, "Format") THEN t.Format ELSE Unknown,
               size |-> IF Num(t, "FileSize") # 0 THEN FormatFileSize(t.FileSize) ELSE @.size,
               runtime |-> IF Num(t, "Duration") # 0 THEN FormatDuration(t.Duration) ELSE @.runtime,
               bitrate |-> IF Num(t, "OverallBitRate") # 0 THEN FormatBitrate(t.OverallBitRate)
                           ELSE @.bitrate]]
      [] t.type = "Video" -> [st EXCEPT !.parsed.video = VideoOf(t)]
      [] t.type = "Audio" ->
           [st EXCEPT !.parsed.audio = Append(@, AudioOf(t, st.audioIndex)),
                      !.audioIndex = PostIncrement(@)]
      [] t.type = "Text" ->
           [st EXCEPT !.parsed.subtitles = Append(@, SubtitleOf(t, st.subtitleIndex)),
                      !.subtitleIndex = PostIncrement(@)]
      [] OTHER -> st

RECURSIVE TrackLoop(_, _)
TrackLoop(st, tracks) ==
    IF tracks = <<>> THEN st ELSE TrackLoop(TrackStep(st, Head(tracks)), Tail(tracks))

\* parseMediaInfo(result, filename); a result is a record that may lack
\* media, whose media may lack track
ParseMediaInfo(result, filename) ==
    IF ~Has(result, "media") \/ ~Has(result.media, "track") THEN DefaultReport(filename)
    ELSE TrackLoop([parsed |-> DefaultReport(filename),
                    audioIndex |-> InitialIndex, subtitleIndex |-> InitialIndex],
                   result.media.track).parsed

\* ---- raw results ----
MaxTracks == 4
MaxNormCalls == 3

\* raw tracks: '@type' and the fields the engine reported
Sample ==
    [general |-> [type |-> "General"],
     video |-> [type |-> "Video", Format |-> <<"AVC">>, Width |-> 1920, Height |-> 1080],
     stereo |-> [type |-> "Audio", Format |-> <<"AAC">>, Channels |-> 2,
                 Language |-> <<"e", "ng">>],
     surround |-> [type |-> "Audio", Format |-> <<"DTS">>, Format_Profile |-> <<"MA">>,
                   Channels |-> 6, Title |-> <<"Main">>, Default |-> "Yes"],
     utf8 |-> [type |-> "Text", Format |-> <<"UTF-8">>, Language |-> <<"j", "pn">>],
     ass |-> [type |-> "Text", CodecID |-> <<"S_TEXT/", "ass">>],
     menu |-> [type |-> "Menu"]]

BitRates == {0, 500, 999, 1000, 1500, 1499, 999499, 999500, 1000000, 2500000, 12345678}

RECURSIVE SeqsUpTo(_, _)
SeqsUpTo(S, n) ==
    IF n = 0 THEN {<<>>}
    ELSE LET shorter == SeqsUpTo(S, n - 1)
         IN shorter \cup {Append(q, x) : q \in {r \in shorter : Len(r) = n - 1}, x \in S}

Result(tracks) == [media |-> [track |-> tracks]]
NoMedia == [creatingLibrary |-> "MediaInfoLib"]
HdStereo == Result(<<Sample.general, Sample.video, Sample.stereo>>)

\* the results parseMediaInfo is called on: no media, no track list, every
\* sequence of up to MaxTracks sample tracks other than the general one,
\* single tracks with few or no fields, and single audio tracks of four
\* formats with or without a profile and a commercial name
Raws ==
    {NoMedia, [media |-> [ref |-> "x"]], HdStereo, Result(<<Sample.general>>)}
    \cup {Result(q) : q \in SeqsUpTo({Sample[k] : k \in DOMAIN Sample \ {"general"}}, MaxTracks)}
    \cup {Result(<<[type |-> "Video", Width |-> d[1], Height |-> d[2]]>>) :
            d \in {<<1920, 1080>>, <<720, 480>>, <<1920, 800>>, <<1280, 720>>, <<640, 480>>,
                   <<2560, 1080>>, <<1998, 1080>>, <<1920, 780>>, <<1920, 0>>}}
    \cup {Result(<<[type |-> "General", OverallBitRate |-> b]>>) : b \in BitRates}
    \cup {Result(<<[type |-> "Audio", Channels |-> c]>>) : c \in {0, 1, 2, 3, 6, 8}}
    \cup {Result(<<[type |-> "Audio", BitRate |-> b]>>) : b \in {1500, 2500000}}
    \cup {Result(<<[type |-> "Audio", Format |-> f] @@ p @@ c>>) :
            f \in {<<"MLP FBA">>, <<"TrueHD">>, <<"DTS">>, <<"AAC">>},
            p \in {<<>>, [Format_Profile |-> <<"MA">>], [Format_Profile |-> <<"LC">>]},
            c \in {<<>>, [Format_Commercial_IfAny |-> <<"Dolby TrueHD with Dolby ", "Atmos">>]}}
    \cup {Result(<<t>>) :
            t \in {[type |-> "Video"], [type |-> "Audio"], [type |-> "Text"],
                   [type |-> "General", Format |-> <<"Matroska">>, FileSize |-> 1536,
                    Duration |-> 3725000, OverallBitRate |-> 2500000],
                   [type |-> "Text", Format |-> <<"SubRip">>, Title |-> <<"Forced">>]}}

Filename == <<"video.mkv">>

\* what the object pass of a run may have found in the file
EngineResults == {HdStereo, NoMedia}

\* parseMediaInfo is called on a result
NormCall ==
    /\ normCalls # <<>>
    /\ Len(normCalls) < MaxNormCalls
    /\ Last(normCalls).report # NoValue
    /\ \E raw \in {NoMedia, Result(<<Sample.stereo, Sample.utf8, Sample.surround>>), normCalls[1].raw} :
         normCalls' = Append(normCalls, [raw |-> raw, report |-> NoValue])
    /\ UNCHANGED <<reply, runs, pasteVars, anVars, cmdVars>>

\* parseMediaInfo returns
NormReturn ==
    /\ normCalls # <<>>
    /\ Last(normCalls).report = NoValue
    /\ normCalls' = [normCalls EXCEPT ![Len(normCalls)].report =
                                         ParseMediaInfo(Last(normCalls).raw, Filename)]
    /\ UNCHANGED <<reply, runs, pasteVars, anVars, cmdVars>>

(***************************************************************************)
(* mediainfoCommand                                                        *)
(***************************************************************************)
NewCmd ==
    [pc |-> "start", messageId |-> NoMessageId, reply |-> NoValue,
     req |-> NoValue, next |-> "", mode |-> "",
     ret |-> "", metaFor |-> "", fileId |-> NoId, trueSize |-> 0, fileSize |-> 0, range |-> FALSE,
     net |-> <<>>, meta |-> NoValue, resp |-> NoValue,
     dl |-> NoValue, analysis |-> NoValue, report |-> NoValue, paste |-> NoValue, image |-> NoValue,
     err |-> NoValue, failOp |-> "", ops |-> <<>>]

\* await telegram.<method>(req); on success continue at next.  mode says
\* where a rejection goes: "try" into the catch block of line 402,
\* "outside" out of the handler, "ignore" nowhere (lines 353-357)
GoTg(c, req, next, mode) == [c EXCEPT !.pc = "tg", !.req = req, !.next = next, !.mode = mode]

\* updateStatus (lines 194-202)
UpdateStatus(c, text, next) ==
    IF c.messageId # NoMessageId
    THEN GoTg(c, EditMessage(c.messageId, text), next, "try")
    ELSE [c EXCEPT !.pc = next]

\* the `if (messageId) edit else send; return` blocks
ReportError(c, text) ==
    GoTg([c EXCEPT !.failOp = Last(c.ops)],
         IF c.messageId # NoMessageId THEN EditMessage(c.messageId, text) ELSE SendMessage(text),
         "failed", "try")

\* an exception reaches the catch block
ToCatch(c, err) ==
    [c EXCEPT !.pc = "catch", !.err = err,
              !.failOp = IF c.failOp = "" THEN Last(c.ops) ELSE c.failOp]

LinkOfUnchecked(paste) == paste.url

\* pasteResult.success && pasteResult.url ? link : nothing (lines 344, 379)
LinkOf(paste) == IF paste.success /\ paste.url # <<>> THEN paste.url ELSE NoValue

\* the caption of lines 336-349
Caption(c) == [kind |-> "caption", link |-> LinkOf(c.paste)]

\* the text response of lines 373-390
StyledText(c) == [kind |-> "styled-text", link |-> LinkOf(c.paste)]

\* imageResult.success && imageResult.url (line 360)
ImageUsable(res) == res.success /\ res.url # ""

\* a handler that goes back to the paste upload when the image failed
AfterImageRepaste(c, res) ==
    IF res.success THEN [c EXCEPT !.image = res, !.pc = "deliver"]
    ELSE [c EXCEPT !.image = res, !.pc = "paste"]

\* lines 336-358: caption, then removal of the loading message
AfterImage(c, res) ==
    LET c1 == [c EXCEPT !.image = res] IN
    IF c.messageId # NoMessageId
    THEN GoTg([c1 EXCEPT !.ops = Append(@, "delete")], DeleteMessage(c.messageId), "deliver", "ignore")
    ELSE [c1 EXCEPT !.pc = "deliver"]

\* line 160-190: the usage reply, or the loading message
CmdStart ==
    /\ cmd.pc = "start"
    /\ cmd' = IF input.empty
              THEN GoTg(cmd, SendMessage(Text("usage")), "usage", "outside")
              ELSE GoTg(cmd, SendMessage(Text("loading")), "loaded", "outside")
    /\ UNCHANGED <<input, env, tgLog, drive, now, imgFetches, pasteVars, anVars, repVars>>

\* TelegramClient.request: the Bot API answers the pending request
TgSettle ==
    /\ cmd.pc = "tg"
    /\ \E ok \in BOOLEAN :
         LET id == IF ok /\ Creates(cmd.req) THEN SentCount(tgLog) + 1 ELSE NoMessageId
             c == [cmd EXCEPT !.req = NoValue]
         IN /\ ok => Answerable(cmd.req)
            /\ tgLog' = Append(tgLog, [req |-> cmd.req, ok |-> ok, id |-> id])
            /\ cmd' = IF ok
                      THEN [c EXCEPT !.pc = cmd.next,
                                     !.reply = IF Creates(cmd.req) THEN Message(id) ELSE NoValue]
                      ELSE IF cmd.mode = "try" THEN ToCatch(c, <<"Telegram API error">>)
                      ELSE IF cmd.mode = "ignore" THEN [c EXCEPT !.pc = cmd.next]
                      ELSE [c EXCEPT !.pc = "crashed",
                                     !.failOp = IF c.failOp = "" /\ c.ops # <<>>
                                                THEN Last(c.ops) ELSE c.failOp]
    /\ UNCHANGED <<input, env, drive, now, imgFetches, pasteVars, anVars, repVars>>

\* lines 192-237: the message id, then the classification of the argument
CmdLoaded ==
    /\ cmd.pc = "loaded"
    /\ LET id == MessageIdOf(cmd.reply)
           c == [cmd EXCEPT !.messageId = id, !.ops = Append(@, "resolve")]
       IN cmd' = IF IsDirectUrl(input)
                 THEN UpdateStatus([c EXCEPT !.ops = Append(@, "download")],
                                   Text("status-download-url"), "url.head")
                 ELSE IF ExtractFileId(input) = NoId
                 THEN GoTg([c EXCEPT !.failOp = "resolve"],
                           EditMessage(id, Text("invalid-reference")), "failed", "try")
                 ELSE [c EXCEPT !.fileId = ExtractFileId(input), !.ops = Append(@, "download"),
                                !.pc = "token", !.ret = "meta.command"]
    /\ UNCHANGED <<input, env, tgLog, drive, now, imgFetches, pasteVars, anVars, repVars>>

\* the downloader returns res to the command (lines 213, 281-297): its own
\* locals and the record of its requests end with it
Downloaded(c, res) ==
    [c EXCEPT !.dl = res, !.trueSize = 0, !.fileSize = 0, !.range = FALSE,
              !.ret = "", !.metaFor = "", !.net = <<>>, !.meta = NoValue, !.resp = NoValue]

\* downloadFromUrl: the HEAD request settles
UrlHead ==
    /\ cmd.pc = "url.head"
    /\ \E z \in FileSizes : \E r \in HeadResponses(z) :
         cmd' = [cmd EXCEPT !.trueSize = z,
                            !.fileSize = SizeFromHead(r),
                            !.range = RangeNeeded(SizeFromHead(r), MaxDownloadSize),
                            !.pc = "url.get"]
    /\ UNCHANGED <<input, env, tgLog, drive, now, imgFetches, pasteVars, anVars, repVars>>

\* downloadFromUrl: the GET request settles (lines 110-114); a failure is
\* reported by the command (213-224)
UrlGet ==
    /\ cmd.pc = "url.get"
    /\ \E r \in GetResponses(cmd.trueSize, cmd.range) :
         LET c == [cmd EXCEPT !.trueSize = 0]
         IN cmd' = IF DownloadFromUrl(cmd.fileSize, r) = Null
                   THEN ReportError(c, Text("download-url-failed"))
                   ELSE [c EXCEPT !.resp = r, !.pc = "url.body"]
    /\ UNCHANGED <<input, env, tgLog, drive, now, imgFetches, pasteVars, anVars, repVars>>

\* downloadFromUrl: `await response.arrayBuffer()` settles and the result is
\* returned (lines 117-140); back in the command (line 300)
UrlBody ==
    /\ cmd.pc = "url.body"
    /\ cmd' = UpdateStatus(Downloaded(cmd, DownloadFromUrl(cmd.fileSize, cmd.resp)),
                           Text("status-analyzing"), "analyze")
    /\ UNCHANGED <<input, env, tgLog, drive, now, imgFetches, pasteVars, anVars, repVars>>

\* where a Drive method continues once it holds a token
AfterToken(c) ==
    CASE c.ret = "meta.command"  -> [c EXCEPT !.pc = "meta.fetch", !.metaFor = "command",
                                               !.net = Append(@, "meta")]
      [] c.ret = "download"      -> [c EXCEPT !.pc = "token", !.ret = "meta.download"]
      [] c.ret = "meta.download" -> [c EXCEPT !.pc = "meta.fetch", !.metaFor = "download",
                                               !.net = Append(@, "meta")]

\* getAccessToken up to its fetch (lines 26-42): the cached token, or the
\* token exchange is requested
DriveToken ==
    /\ cmd.pc = "token"
    /\ \E t \in ClockValues :
         /\ t >= now
         /\ now' = t
         /\ cmd' = IF TokenValid(drive, t) THEN AfterToken(cmd)
                   ELSE [cmd EXCEPT !.pc = "token.fetch", !.net = Append(@, "token")]
    /\ UNCHANGED <<input, env, tgLog, drive, imgFetches, pasteVars, anVars, repVars>>

\* getAccessToken from the settled fetch on (lines 44-53)
DriveTokenSettle ==
    /\ cmd.pc = "token.fetch"
    /\ \E r \in TokenResponses :
         IF r.kind = "throw"
         THEN /\ cmd' = ToCatch(cmd, <<"fetch failed">>)
              /\ UNCHANGED <<drive, now>>
         ELSE IF ~r.token
         THEN /\ cmd' = ToCatch(cmd, <<"Failed to obtain access token">>)
              /\ UNCHANGED <<drive, now>>
         ELSE \E t2 \in ClockValues :
              /\ t2 >= now
              /\ now' = t2
              /\ drive' = [accessToken |-> "token", tokenExpiry |-> t2 + r.expires_in]
              /\ cmd' = AfterToken(cmd)
    /\ UNCHANGED <<input, env, tgLog, imgFetches, pasteVars, anVars, repVars>>

\* getFileMetadata's fetch settles; back in its caller: the command (240-278)
\* or downloadFileContent (264-281)
DriveMeta ==
    /\ cmd.pc = "meta.fetch"
    /\ \E r \in MetaResponses :
         cmd' =
           IF r.kind = "throw" THEN ToCatch(cmd, <<"fetch failed">>)
           ELSE IF cmd.metaFor = "command"
           THEN LET c == [cmd EXCEPT !.meta = r] IN
                IF ~r.ok THEN ReportError(c, Text("no-access"))
                ELSE IF r.meta.mimeType = FolderMime THEN ReportError(c, Text("is-folder"))
                ELSE IF ParseSize(r.meta) = 0 THEN ReportError(c, Text("empty-file"))
                ELSE UpdateStatus([c EXCEPT !.ret = "download"], Text("status-download-drive"), "token")
           ELSE IF ~r.ok \/ ParseSize(r.meta) = 0
                THEN ReportError(cmd, Text("download-drive-failed"))
                ELSE [cmd EXCEPT !.fileSize = ParseSize(r.meta),
                                 !.range = RangeNeeded(ParseSize(r.meta), MaxDownloadSize),
                                 !.net = Append(@, "content"),
                                 !.pc = "dl.get"]
    /\ UNCHANGED <<input, env, tgLog, drive, now, imgFetches, pasteVars, anVars, repVars>>

\* downloadFileContent: the content request settles; back in the command
DriveGet ==
    /\ cmd.pc = "dl.get"
    /\ \E r \in DriveGetResponses(cmd.fileSize, cmd.range) :
         LET res == DownloadFileContent(cmd.fileSize, r) IN
         cmd' = IF res = Null
                THEN ReportError(cmd, Text("download-drive-failed"))
                ELSE UpdateStatus(Downloaded(cmd, res), Text("status-analyzing"), "analyze")
    /\ UNCHANGED <<input, env, tgLog, drive, now, imgFetches, pasteVars, anVars, repVars>>

\* line 303: analyzeMediaBuffer is called
CmdAnalyze ==
    /\ cmd.pc = "analyze"
    /\ cmd' = [cmd EXCEPT !.pc = "analyzing", !.ops = Append(@, "analyze")]
    /\ anPc' = "create" /\ anBuf' = cmd.dl /\ mi' = NoInstance /\ anLog' = <<>> /\ anOut' = NoValue
    /\ UNCHANGED <<input, env, tgLog, drive, now, imgFetches, pasteVars, repVars>>

\* lines 303-313: analyzeMediaBuffer settles; parseMediaInfo
CmdAnalyzed ==
    /\ cmd.pc = "analyzing" /\ anPc \in {"returned", "threw"}
    /\ IF anPc = "threw"
       THEN cmd' = ToCatch([cmd EXCEPT !.dl = NoValue], <<anOut.error>>)
       ELSE \E raw \in EngineResults :
            cmd' = UpdateStatus([cmd EXCEPT !.dl = NoValue,
                                            !.analysis = [anOut EXCEPT !.result = raw],
                                            !.report = ParseMediaInfo(raw, Filename),
                                            !.ops = Append(@, "normalize")],
                                Text("status-upload"), "paste")
    /\ mi' = NoInstance /\ anPc' = "idle" /\ anBuf' = NoValue /\ anLog' = <<>> /\ anOut' = NoValue
    /\ UNCHANGED <<input, env, tgLog, drive, now, imgFetches, pasteVars, repVars>>

\* line 320: uploadToPastebin is called
CmdPaste ==
    /\ cmd.pc = "paste"
    /\ PasteIdle
    /\ cmd' = [cmd EXCEPT !.pc = "pasting", !.ops = Append(@, "paste")]
    /\ pastePc' = "try"
    /\ UNCHANGED <<pasteIdx, pasteAttempts, pasteResponses, pasteErrors, pasteResult>>
    /\ UNCHANGED <<input, env, tgLog, drive, now, imgFetches, anVars, repVars>>

\* lines 320-326: uploadToPastebin settles
CmdPasted ==
    /\ cmd.pc = "pasting" /\ pastePc = "returned"
    /\ cmd' = UpdateStatus([cmd EXCEPT !.paste = [success |-> pasteResult.success,
                                                  url |-> IF pasteResult.success
                                                          THEN pasteResult.url ELSE <<>>]],
                           Text("status-visual"), "image")
    /\ pastePc' = "idle" /\ pasteIdx' = 1 /\ pasteAttempts' = <<>> /\ pasteResponses' = <<>>
    /\ pasteErrors' = <<>> /\ pasteResult' = NoValue
    /\ UNCHANGED <<input, env, tgLog, drive, now, imgFetches, anVars, repVars>>

\* lines 328-333: generateMediaInfoHtml, then generateMediaInfoImage up to
\* its fetch, or through its credentials guard
CmdImage ==
    /\ cmd.pc = "image"
    /\ LET c == [cmd EXCEPT !.ops = @ \o <<"renderHtml", "image">>] IN
       IF CredsMissing(env.HCTI_USER_ID, env.HCTI_API_KEY)
       THEN cmd' = AfterImage(c, NotConfigured) /\ UNCHANGED imgFetches
       ELSE cmd' = [c EXCEPT !.pc = "image.await"] /\ imgFetches' = imgFetches + 1
    /\ UNCHANGED <<input, env, tgLog, drive, now, pasteVars, anVars, repVars>>

\* generateMediaInfoImage: the fetch settles
ImageSettle ==
    /\ cmd.pc = "image.await"
    /\ \E r \in ImageResponses : cmd' = AfterImage(cmd, ImageResult(r))
    /\ UNCHANGED <<input, env, tgLog, drive, now, imgFetches, pasteVars, anVars, repVars>>

\* lines 360-398: the document, or the styled text
CmdDeliver ==
    /\ cmd.pc = "deliver"
    /\ cmd' = IF ImageUsable(cmd.image)
              THEN GoTg([cmd EXCEPT !.ops = Append(@, "send")],
                        SendDocument(cmd.image.url, Caption(cmd)), "done", "try")
              ELSE GoTg([cmd EXCEPT !.ops = @ \o <<"renderText", "send">>],
                        SendMessage(StyledText(cmd)), "done", "try")
    /\ UNCHANGED <<input, env, tgLog, drive, now, imgFetches, pasteVars, anVars, repVars>>

\* lines 402-413: the catch block
CmdCatch ==
    /\ cmd.pc = "catch"
    /\ cmd' = GoTg(cmd, IF cmd.messageId # NoMessageId
                        THEN EditMessage(cmd.messageId, ErrorText(cmd.err))
                        ELSE SendMessage(ErrorText(cmd.err)),
                   "failed", "outside")
    /\ UNCHANGED <<input, env, tgLog, drive, now, imgFetches, pasteVars, anVars, repVars>>

CmdUnused ==
    /\ input = EmptyArgs /\ env = [HCTI_USER_ID |-> Undefined, HCTI_API_KEY |-> Undefined]
    /\ cmd = [NewCmd EXCEPT !.pc = "none"] /\ tgLog = <<>> /\ drive = NewDrive /\ now = 0
    /\ imgFetches = 0

(***************************************************************************)
(* Plain-text fallback message (mediainfoCommand, lines 373-398)           *)
(***************************************************************************)
\* A text is a sequence of segments; a segment has a name, the number of
\* UTF-16 units of it that are present, and the number it had when whole.
Seg(name, n) == [seg |-> name, len |-> n, of |-> n]

RECURSIVE Length(_)
\* text.length
Length(text) == IF text = <<>> THEN 0 ELSE Head(text).len + Length(Tail(text))

RECURSIVE Substring(_, _)
\* text.substring(0, k); a negative k is taken as 0
Substring(text, k) ==
    IF text = <<>> \/ k <= 0 THEN <<>>
    ELSE IF Head(text).len <= k
         THEN <<Head(text)>> \o Substring(Tail(text), k - Head(text).len)
         ELSE <<[Head(text) EXCEPT !.len = k]>>

\* the three header lines of lines 374-376 around the file name, the size
\* and the container
HeaderFixed == 60
\* '\n\n<clipboard> <b>Full Report:</b> ', the clipboard sign being two units
LinkPrefixLen == 25
\* '\n\n<i>[Output truncated]</i>'
MarkerLen == 27
TruncateOver == 4000
KeepBudget == 3900

\* lengths of the file name "video.mkv" and of the default size and container
HeaderLen == HeaderFixed + 9 + 7 + 7

\* lengths of the styled report, and paste results with the length of the URL
StyledLengths == {0, 100, 2000, 3790, 3816, 3817, 3857, 3858, 3917, 3918, 4013, 4014, 6000}
TextPasteResults ==
    {[success |-> FALSE]}
    \cup {[success |-> TRUE, url |-> u] : u \in {20, 40, 60, 100, 3875, 3876, 4044, 4045, 4100}}

\* lines 385-387
LinkPart(p) == IF p.success /\ p.url > 0 THEN <<Seg("link", LinkPrefixLen + p.url)>> ELSE <<>>

\* lines 373-381: the response before the length test
TextBuild ==
    /\ reply # NoValue /\ reply.pc = "build"
    /\ reply' = [reply EXCEPT !.pc = "truncate",
                              !.response = <<Seg("header", HeaderLen), Seg("styled", reply.styled)>>
                                           \o LinkPart(reply.paste)]
    /\ UNCHANGED <<normCalls, runs, pasteVars, anVars, cmdVars>>

\* lines 383-390
TextTruncate ==
    /\ reply # NoValue /\ reply.pc = "truncate"
    /\ reply' = [reply EXCEPT
           !.pc = "send",
           !.response =
               IF Length(@) > TruncateOver
               THEN Substring(@, KeepBudget - Length(LinkPart(reply.paste)))
                    \o <<Seg("marker", MarkerLen)>> \o LinkPart(reply.paste)
               ELSE @]
    /\ UNCHANGED <<normCalls, runs, pasteVars, anVars, cmdVars>>

\* lines 392-397: the response is handed to sendMessage
TextSend ==
    /\ reply # NoValue /\ reply.pc = "send"
    /\ reply' = [reply EXCEPT !.pc = "sent", !.sent = reply.response]
    /\ UNCHANGED <<normCalls, runs, pasteVars, anVars, cmdVars>>

(***************************************************************************)
(* Concurrent webhook requests                                             *)
(*                                                                         *)
(* Two requests are served by one isolate.  `runs.heap` holds every object *)
(* created so far (a GoogleDriveClient with its token cache, a byte        *)
(* window, an engine instance), `runs.run[r]` the locals of request r:     *)
(* its references into the heap and the values it has awaited.  A request  *)
(* yields to the other one only at an await.                               *)
(***************************************************************************)
Requests == {1, 2}
NoRef == 0
RunInputs == {[kind |-> k, window |-> w] :
                 k \in {"url", "drive"}, w \in {[len |-> 3, size |-> 3], [len |-> 10, size |-> 12]}}
NewRun(in) == [pc |-> "webhook", input |-> in, drive |-> NoRef, window |-> NoRef,
               engine |-> NoRef, exchanges |-> 0, result |-> NoValue, outcome |-> NoValue]

AllocShared(heap, kind, by, val) ==
    LET same == {i \in DOMAIN heap : heap[i].kind = kind}
    IN IF same = {}
       THEN [heap |-> Append(heap, [kind |-> kind, by |-> by, val |-> val]), ref |-> Len(heap) + 1]
       ELSE [heap |-> heap, ref |-> CHOOSE i \in same : TRUE]

\* `new GoogleDriveClient(env)`, `new Uint8Array(...)`, `new MediaInfo(...)`:
\* every construction yields an object nothing else refers to
Alloc(heap, kind, by, val) ==
    [heap |-> Append(heap, [kind |-> kind, by |-> by, val |-> val]), ref |-> Len(heap) + 1]

\* analyzeData with the synchronous readChunk of analyzeMediaBuffer: the read
\* loop runs to its end within the call, the engine asking for one chunk
\* after the other
RECURSIVE RunLoop(_, _)
RunLoop(m, bufLen) ==
    IF m.loop = "getChunk" THEN RunLoop(GetChunk(m, bufLen, FALSE), bufLen)
    ELSE IF m.loop = "haveChunk" THEN RunLoop(ReadNextChunk(m, "more", NoSeek, "ok"), bufLen)
    ELSE m

\* what a pass gives the caller: how the promise settled, and how much the
\* engine was fed
PassResult(m) == [call |-> Last(m.calls), reads |-> m.nreads]

\* handleWebhook builds the clients of the request
RunWebhook ==
    \E r \in Requests :
      /\ runs.run[r].pc = "webhook"
      /\ LET a == Alloc(runs.heap, "drive", r, NewDrive)
         IN runs' = [heap |-> a.heap,
                     run |-> [runs.run EXCEPT ![r].pc = "download", ![r].drive = a.ref]]
      /\ UNCHANGED <<normCalls, reply, pasteVars, anVars, cmdVars>>

\* the download of the request: a Drive file needs the access token of the
\* request's client, which is exchanged unless the client holds a valid one;
\* the bytes received become the byte window
RunDownload ==
    \E r \in Requests :
      /\ runs.run[r].pc = "download"
      /\ LET me == runs.run[r]
             hit == me.input.kind = "url" \/ TokenValid(runs.heap[me.drive].val, 0)
             heap1 == IF hit THEN runs.heap
                      ELSE [runs.heap EXCEPT ![me.drive].val =
                                [accessToken |-> "token", tokenExpiry |-> 61]]
             a == Alloc(heap1, "window", r, me.input.window)
         IN runs' = [heap |-> a.heap,
                     run |-> [runs.run EXCEPT ![r].pc = "create", ![r].window = a.ref,
                                              ![r].exchanges = IF hit THEN @ ELSE @ + 1]]
      /\ UNCHANGED <<normCalls, reply, pasteVars, anVars, cmdVars>>

\* analyzeMediaBuffer up to `await mediainfo.analyzeData(...)` in object mode
RunCreate ==
    \E r \in Requests :
      /\ runs.run[r].pc = "create"
      /\ LET me == runs.run[r]
             w == runs.heap[me.window].val
             a == Alloc(runs.heap, "engine", r, NewInstance)
             m == RunLoop(AnalyzeData(a.heap[a.ref].val, "promise", "sync", w.size, FALSE), w.len)
         IN runs' = [heap |-> [a.heap EXCEPT ![a.ref].val = m],
                     run |-> [runs.run EXCEPT ![r].pc = "pass1", ![r].engine = a.ref,
                                              ![r].result = PassResult(m)]]
      /\ UNCHANGED <<normCalls, reply, pasteVars, anVars, cmdVars>>

\* reset, the text option, and the second `await mediainfo.analyzeData(...)`
RunPass2 ==
    \E r \in Requests :
      /\ runs.run[r].pc = "pass1"
      /\ LET me == runs.run[r]
             w == runs.heap[me.window].val
             m0 == [Reset(runs.heap[me.engine].val) EXCEPT !.format = "text"]
             m == RunLoop(AnalyzeData(m0, "promise", "sync", w.size, FALSE), w.len)
         IN runs' = [runs EXCEPT !.heap[me.engine].val = m, !.run[r].pc = "pass2"]
      /\ UNCHANGED <<normCalls, reply, pasteVars, anVars, cmdVars>>

\* inform, the return statement and the close of the finally block
RunReturn ==
    \E r \in Requests :
      /\ runs.run[r].pc = "pass2"
      /\ LET me == runs.run[r]
             m == Touch(runs.heap[me.engine].val)
         IN runs' = [runs EXCEPT
                !.heap[me.engine].val = Close(m),
                !.run[r].pc = "returned",
                !.run[r].outcome = [result |-> me.result, text |-> PassResult(m),
                                    bufferSize |-> runs.heap[me.window].val.len,
                                    exchanges |-> me.exchanges]]
      /\ UNCHANGED <<normCalls, reply, pasteVars, anVars, cmdVars>>

(***************************************************************************)
(* Specifications                                                          *)
(***************************************************************************)
\* uploadToPastebin on its own
AnUnused == mi = NoInstance /\ anPc = "idle" /\ anBuf = NoValue /\ anLog = <<>> /\ anOut = NoValue

RepUnused == normCalls = <<>> /\ reply = NoValue /\ runs = NoValue

\* parseMediaInfo on its own, called on any of the raw results
InitNormalize ==
    /\ PasteIdle /\ AnUnused /\ CmdUnused
    /\ reply = NoValue /\ runs = NoValue
    /\ \E raw \in Raws : normCalls = <<[raw |-> raw, report |-> NoValue]>>

NextNormalize == NormCall \/ NormReturn

SpecNormalize == InitNormalize /\ [][NextNormalize]_vars

\* the text fallback on its own, for any styled report and paste result
InitText ==
    /\ PasteIdle /\ AnUnused /\ CmdUnused
    /\ normCalls = <<>> /\ runs = NoValue
    /\ \E n \in StyledLengths, p \in TextPasteResults :
         reply = [pc |-> "build", styled |-> n, paste |-> p, response |-> <<>>, sent |-> NoValue]

NextText == TextBuild \/ TextTruncate \/ TextSend

SpecText == InitText /\ [][NextText]_vars

InitPaste == PasteCalled /\ AnUnused /\ CmdUnused /\ RepUnused

NextPaste == PasteFetch \/ PasteRespond

SpecPaste == InitPaste /\ [][NextPaste]_vars

\* uploadToPastebin with its own steps taken in time and with providers that
\* answer in time, except paste.rs, which may never answer: the code sets no
\* timeout on its fetch (lines 82-88)
SpecPasteStalled ==
    /\ SpecPaste
    /\ WF_vars(PasteFetch)
    /\ WF_vars(PasteRespond /\ Providers[pasteIdx] # "paste.rs")

\* two webhook requests served concurrently
InitRuns ==
    /\ PasteIdle /\ AnUnused /\ CmdUnused
    /\ normCalls = <<>> /\ reply = NoValue
    /\ \E a \in RunInputs, b \in RunInputs :
         runs = [heap |-> <<>>, run |-> <<NewRun(a), NewRun(b)>>]

NextRuns == RunWebhook \/ RunDownload \/ RunCreate \/ RunPass2 \/ RunReturn

SpecRuns == InitRuns /\ [][NextRuns]_vars

\* one engine instance and clients calling analyzeData on it
InitEngine ==
    /\ PasteIdle /\ CmdUnused /\ RepUnused
    /\ AnIdle
    /\ mi = NewInstance
    /\ anBuf \in EngineWindows

NextEngine == MiClientCall \/ MiGetChunk \/ MiReadNextChunk

SpecEngine == InitEngine /\ [][NextEngine]_vars

\* analyzeMediaBuffer on its own
InitAnalyze == PasteIdle /\ CmdUnused /\ RepUnused /\ \E w \in Windows : AnCalled(w)

NextAnalyze == AnCreated \/ MiGetChunk \/ MiReadNextChunk \/ AnAfterPass1 \/ AnAfterPass2

SpecAnalyze == InitAnalyze /\ [][NextAnalyze]_vars

\* one run of the /mediainfo command, from the webhook's fresh clients
Init ==
    /\ PasteIdle /\ AnUnused /\ RepUnused
    /\ input \in Inputs
    /\ env \in EnvConfigs
    /\ cmd = NewCmd /\ tgLog = <<>> /\ drive = NewDrive /\ now = 0 /\ imgFetches = 0

Next ==
    \/ CmdStart \/ TgSettle \/ CmdLoaded
    \/ UrlHead \/ UrlGet \/ UrlBody
    \/ DriveToken \/ DriveTokenSettle \/ DriveMeta \/ DriveGet
    \/ CmdAnalyze \/ AnCreated \/ MiGetChunk \/ MiReadNextChunk \/ AnAfterPass1 \/ AnAfterPass2
    \/ CmdAnalyzed
    \/ CmdPaste \/ PasteFetch \/ PasteRespond \/ CmdPasted
    \/ CmdImage \/ ImageSettle
    \/ CmdDeliver \/ CmdCatch

Spec == Init /\ [][Next]_vars

(***************************************************************************)
(* Properties of the paste chain                                           *)
(***************************************************************************)
FixedOrder == <<"paste.rs", "dpaste.org", "0x0.st", "hastebin">>

\* what the contract calls a successful attempt: success status and a body
\* of the provider's expected shape
GoodAttempt(p, r) ==
    /\ r.kind = "http"
    /\ r.ok
    /\ IF p = "hastebin" THEN r.body.fmt = "json" /\ r.body.key # ""
       ELSE r.body.fmt = "text" /\ r.body.prefix = UrlPrefix(p)

UrlOf(p, r) == IF p = "hastebin" THEN <<UrlPrefix(p), r.body.key>>
               ELSE <<r.body.prefix, r.body.rest>>

\* the message the contract expects provider p to contribute for response r
ExpectedMsg(p, r) ==
    IF r.kind = "throw" THEN <<"fetch failed">>
    ELSE IF ~r.ok THEN <<p, " returned ", r.status>>
    ELSE IF p = "hastebin" /\ r.body.fmt # "json" THEN <<"Unexpected token">>
    ELSE <<"Invalid response from ", p>>

\* C1: the providers are attempted in the fixed order paste.rs, dpaste.org,
\* 0x0.st, hastebin, each at most once; nothing is attempted after the first
\* successful attempt; the call returns the URL of the first provider whose
\* attempt succeeds (and a failure only when none did).
C1_FirstSuccessInOrder ==
    /\ IsPrefixOf(pasteAttempts, FixedOrder)
    /\ \A i \in 1..Len(pasteResponses) :
          GoodAttempt(FixedOrder[i], pasteResponses[i]) =>
             /\ Len(pasteAttempts) = i
             /\ pastePc = "returned"
    /\ pastePc = "returned" =>
          LET n == Len(pasteResponses) IN
          /\ n = Len(pasteAttempts)
          /\ pasteResult.success = GoodAttempt(FixedOrder[n], pasteResponses[n])
          /\ pasteResult.success => pasteResult.url = UrlOf(FixedOrder[n], pasteResponses[n])
          /\ ~pasteResult.success => n = Len(FixedOrder)

\* providers 1 and 2 failed, provider 3 succeeded, and its URL was returned
C1_Witness ==
    /\ pastePc = "returned"
    /\ pasteAttempts = <<"paste.rs", "dpaste.org", "0x0.st">>
    /\ pasteResult.success
    /\ pasteResult.url = <<"https://0x0.st/", "abc">>

AllFourFailed ==
    /\ Len(pasteResponses) = Len(FixedOrder)
    /\ \A i \in 1..Len(FixedOrder) : ~GoodAttempt(FixedOrder[i], pasteResponses[i])

\* C2: when all four providers fail, in any combination of bad status, wrong
\* body shape and thrown network error, the call returns one failure result
\* without URL whose message contains every provider's own message.
C2_AggregatedFailure ==
    (pastePc = "returned" /\ AllFourFailed) =>
        /\ pasteResult.success = FALSE
        /\ "url" \notin DOMAIN pasteResult
        /\ \A i \in 1..Len(FixedOrder) :
              Contains(pasteResult.error,
                       <<FixedOrder[i], ": ">> \o ExpectedMsg(FixedOrder[i], pasteResponses[i]))

\* all four failed, by three different kinds of failure
C2_Witness ==
    /\ pastePc = "returned"
    /\ AllFourFailed
    /\ pasteResponses[1].kind = "throw"
    /\ pasteResponses[2] = BadStatus
    /\ pasteResponses[3].kind = "http" /\ pasteResponses[3].ok
    /\ ~pasteResult.success


(***************************************************************************)
(* Properties of the engine and of analyzeMediaBuffer                      *)
(***************************************************************************)
\* C3: once the instance exists, analyzeMediaBuffer closes it exactly once on
\* every exit path (success, failed object pass, failed reset, failed text
\* pass, failed inform), never before the exit, and invokes no engine
\* operation on it after close().
C3_ClosedExactlyOnce ==
    mi.exists =>
        /\ anPc \in {"pass1", "pass2"} => mi.closes = 0
        /\ anPc \in {"returned", "threw"} =>
              /\ mi.closes = 1
              /\ anLog[Len(anLog)].op = "close"
              /\ \A i \in 1..(Len(anLog) - 1) : anLog[i].op # "close"
        /\ mi.afterClose = 0

\* the text pass failed after a successful object pass and reset, and the
\* instance was closed
C3_Witness ==
    /\ anPc = "threw"
    /\ mi.exists /\ mi.closes = 1
    /\ Len(mi.calls) = 2
    /\ mi.calls[1].status = "resolved"
    /\ mi.calls[2].status = "rejected"

\* a call rejected as busy never owns the read loop
C4_NotQueued ==
    mi.exists => \A c \in 1..Len(mi.calls) :
        mi.calls[c].err = BusyError => (mi.owner # c /\ mi.calls[c].status = "rejected")

\* C4: while an accepted analysis is in progress, the next analyzeData call on
\* the instance is rejected at once with the busy error; it does not become
\* the running analysis later (not queued), the engine is not reset, and no
\* chunk is read for it.
C4_SecondCallBusy ==
    /\ [][(/\ mi.exists /\ mi.loop # "idle"
           /\ Len(mi'.calls) = Len(mi.calls) + 1
           /\ Len(mi.calls) = mi.owner)
          => LET c == Len(mi'.calls) IN
             /\ mi'.calls[c].status = "rejected"
             /\ mi'.calls[c].err = BusyError
             /\ mi'.resets = mi.resets
             /\ mi'.nreads = mi.nreads
             /\ mi'.lastRead = mi.lastRead
             /\ mi'.loop = mi.loop /\ mi'.owner = mi.owner
             /\ mi'.offset = mi.offset /\ mi'.chunk = mi.chunk]_vars
    /\ []C4_NotQueued

\* call 1 is still reading, call 2 was rejected as busy
C4_Witness ==
    /\ mi.exists /\ mi.owner = 1 /\ mi.loop = "haveChunk"
    /\ Len(mi.calls) >= 2
    /\ mi.calls[2].status = "rejected" /\ mi.calls[2].err = BusyError
    /\ mi.resets = 1


(***************************************************************************)
(* Properties of the command handler                                       *)
(***************************************************************************)
\* the component each operation of the handler belongs to
StageOf(op) ==
    CASE op = "resolve"    -> "Resolving"
      [] op = "download"   -> "Downloading"
      [] op = "analyze"    -> "Analyzing"
      [] op = "normalize"  -> "Normalizing"
      [] op = "renderHtml" -> "Rendering"
      [] op = "renderText" -> "Rendering"
      [] op = "paste"      -> "Distributing"
      [] op = "image"      -> "Distributing"
      [] op = "delete"     -> "Delivering"
      [] op = "send"       -> "Delivering"

RECURSIVE StageTrace(_)
\* the stages a sequence of operations passes through, in order of entry
StageTrace(ops) ==
    IF ops = <<>> THEN <<>>
    ELSE LET rest == StageTrace(Tail(ops))
             st == StageOf(Head(ops))
         IN IF rest # <<>> /\ Head(rest) = st THEN rest ELSE <<st>> \o rest

\* the texts the chat shows: every sent message that was not deleted, with
\* the text of its last successful edit
Shown(log) ==
    LET sent == {i \in 1..Len(log) : log[i].ok /\ Creates(log[i].req)}
        acts(i, m) == {j \in (i + 1)..Len(log) :
                         log[j].ok /\ log[j].req.method = m /\ log[j].req.message_id = log[i].id}
        kept == {i \in sent : acts(i, "deleteMessage") = {}}
        textOf(i) == LET e == acts(i, "editMessageText")
                     IN IF e = {} THEN log[i].req
                        ELSE log[CHOOSE j \in e : \A k \in e : k <= j].req
    IN {[id |-> log[i].id, method |-> log[i].req.method, text |-> textOf(i).text] : i \in kept}

TraceWithImage ==
    <<"Resolving", "Downloading", "Analyzing", "Normalizing",
      "Distributing", "Rendering", "Distributing", "Delivering">>
TraceWithText ==
    <<"Resolving", "Downloading", "Analyzing", "Normalizing",
      "Distributing", "Rendering", "Distributing", "Rendering", "Delivering">>

StageMessages(stage) ==
    CASE stage = "Resolving"   -> {"invalid-reference"}
      [] stage = "Downloading" -> {"no-access", "is-folder", "empty-file",
                                   "download-drive-failed", "download-url-failed"}
      [] stage = "Analyzing"   -> {"analysis-failed"}
      [] stage = "Delivering"  -> {"delivery-failed"}
      [] OTHER                 -> {}

\* C6: when a stage fails the run ends in Failed with no operation of a later
\* stage performed, and apart from the progress indicator the chat shows
\* exactly one message, which is the message of the stage that failed.
C6_OneStageMessage ==
    (cmd.pc = "failed" /\ cmd.failOp # "") =>
        /\ Last(cmd.ops) = cmd.failOp
        /\ LET reports == {m \in Shown(tgLog) : m.text.kind # "loading"}
           IN \E m \in reports :
                 /\ reports = {m}
                 /\ m.text.kind \in StageMessages(StageOf(cmd.failOp))

\* C7: on success the progress indicator is gone and the chat shows exactly
\* one final artifact: the document when the image service returned a URL,
\* else the styled text; it carries the transcript link whenever a paste
\* provider succeeded.
C7_IndicatorReplaced ==
    cmd.pc = "done" =>
        \E m \in Shown(tgLog) :
            /\ Shown(tgLog) = {m}
            /\ IF cmd.image.success
               THEN m.method = "sendDocument" /\ m.text.kind = "caption"
               ELSE m.method = "sendMessage" /\ m.text.kind = "styled-text"
            /\ cmd.paste.success => m.text.link = cmd.paste.url

StatusOf(op) ==
    CASE op = "analyze" -> {"status-analyzing"}
      [] op = "paste"   -> {"status-upload"}
      [] op = "image"   -> {"status-visual"}
      [] op = "download" -> {"status-download-url", "status-download-drive"}
      [] OTHER -> {}

\* C8: the run sends exactly one progress message and, for each long stage
\* it entered, has edited that message in place (an edit carrying its id).
C8_ProgressEditedInPlace ==
    cmd.pc \in {"done", "failed"} =>
        LET progress == {i \in 1..Len(tgLog) : tgLog[i].ok /\ tgLog[i].req.method = "sendMessage"
                                               /\ tgLog[i].req.text.kind = "loading"}
        IN /\ Cardinality(progress) = 1
           /\ \A k \in 1..Len(cmd.ops) :
                cmd.ops[k] \in {"analyze", "paste", "image"} =>
                   \E i \in progress, j \in 1..Len(tgLog) :
                      /\ tgLog[j].req.method = "editMessageText"
                      /\ tgLog[j].req.message_id = tgLog[i].id
                      /\ tgLog[j].req.text.kind \in StatusOf(cmd.ops[k])

\* C9: no failure of the image path or of the paste chain fails the run: a
\* run never fails in a distribution step, a run whose image path failed
\* delivers the styled text, and the delivered artifact carries no link when
\* no provider succeeded.
C9_DistributionDegrades ==
    /\ cmd.failOp \notin {"paste", "renderHtml", "image"}
    /\ (cmd.paste # NoValue /\ cmd.pc \in {"pasting", "image", "image.await", "deliver"}) =>
          cmd.failOp = ""
    /\ cmd.pc = "done" =>
          LET final == Last(tgLog).req IN
          /\ Last(tgLog).ok
          /\ ~cmd.image.success =>
                final.method = "sendMessage" /\ final.text.kind = "styled-text"
          /\ ~cmd.paste.success => final.text.link = NoValue
          /\ cmd.paste.success => final.text.link = cmd.paste.url

\* the image service answered with an error status, all four paste providers
\* failed, and the run is done
C9_Witness ==
    /\ cmd.pc = "done"
    /\ ~cmd.paste.success
    /\ cmd.image = Failure(<<"HCTI API returned ", "503">>)
    /\ Last(tgLog).req.text = [kind |-> "styled-text", link |-> NoValue]

\* C10: with either credential absent generateMediaInfoImage returns a
\* failure and no request is issued to the image service.
C10_NoCredentialsNoRequest ==
    (env.HCTI_USER_ID \in {Undefined, ""} \/ env.HCTI_API_KEY \in {Undefined, ""}) =>
        /\ imgFetches = 0
        /\ cmd.pc # "image.await"
        /\ cmd.image # NoValue => (~cmd.image.success /\ "url" \notin DOMAIN cmd.image)

\* only the API key is absent and generateMediaInfoImage has returned
C10_Witness ==
    /\ env.HCTI_USER_ID = "user" /\ env.HCTI_API_KEY = Undefined
    /\ cmd.image = NotConfigured
    /\ imgFetches = 0

(***************************************************************************)
(* Properties of the downloader and of the Drive client                    *)
(***************************************************************************)
\* C11: the byte window handed over by the downloader, from Drive or from a
\* direct URL, never holds more than MaxDownloadSize bytes, whatever the
\* file's size and whatever the HEAD request gave.
C11_WindowWithinCap ==
    cmd.dl # NoValue => cmd.dl.len <= MaxDownloadSize

\* what the command's metadata request was answered with rules the file out
MetaUnusable(r) ==
    \/ ~r.ok
    \/ r.meta.mimeType = FolderMime
    \/ r.meta.size \in {NoSize, 0}

SourceMessage(r) ==
    IF ~r.ok THEN "no-access"
    ELSE IF r.meta.mimeType = FolderMime THEN "is-folder"
    ELSE "empty-file"

\* C12: for a Drive reference a metadata request precedes every content
\* request, and when the metadata is unavailable, is a folder's or gives
\* size zero, the run goes on to no later operation, issues no content
\* request, and reports the matching source-unavailable message.
C12_MetadataFirst ==
    /\ \A i \in 1..Len(cmd.net) :
          cmd.net[i] = "content" => \E j \in 1..(i - 1) : cmd.net[j] = "meta"
    /\ cmd.pc = "dl.get" => (cmd.net # <<>> /\ Last(cmd.net) = "content")
    /\ (cmd.meta # NoValue /\ MetaUnusable(cmd.meta)) =>
          /\ \A i \in 1..Len(cmd.net) : cmd.net[i] # "content"
          /\ cmd.dl = NoValue /\ Last(cmd.ops) = "download"
          /\ cmd.pc \in {"tg", "catch", "failed", "crashed"}
          /\ cmd.failOp = "download"
          /\ \/ cmd.pc = "tg" /\ cmd.req = SendMessage(Text(SourceMessage(cmd.meta)))
             \/ \E i \in 1..Len(tgLog) :
                   tgLog[i].req = SendMessage(Text(SourceMessage(cmd.meta)))
          /\ (cmd.pc = "failed" /\ \A i \in 1..Len(tgLog) : tgLog[i].ok) =>
                Last(tgLog).req.text = Text(SourceMessage(cmd.meta))

\* the metadata said folder, the folder message was sent, and only the token
\* exchange and the metadata request went to Drive
C12_Witness ==
    /\ cmd.pc = "failed"
    /\ cmd.meta # NoValue /\ cmd.meta.ok /\ cmd.meta.meta.mimeType = FolderMime
    /\ cmd.net = <<"token", "meta">>
    /\ Last(tgLog).ok /\ Last(tgLog).req.text = Text("is-folder")

\* the token exchanges requested so far
TokenCount(net) == Len(SelectSeq(net, LAMBDA x : x = "token"))

\* C20: getAccessToken answers from the cache, with no token exchange, only
\* when the clock it reads is more than 5 minutes before the cached expiry;
\* otherwise it requests exactly one exchange, and caches the new token with
\* its expiry when the exchange gives one. A failed exchange makes the call
\* throw, leaves the cache as it was and is followed by no other exchange.
C20_TokenCache ==
    [][ /\ cmd.pc = "token" =>
            IF drive.accessToken # "null" /\ now' + 5 < drive.tokenExpiry
            THEN /\ TokenCount(cmd'.net) = TokenCount(cmd.net)
                 /\ cmd'.pc \in {"token", "meta.fetch"}
                 /\ drive' = drive
            ELSE /\ cmd'.net = Append(cmd.net, "token")
                 /\ cmd'.pc = "token.fetch"
                 /\ drive' = drive
        /\ cmd.pc = "token.fetch" =>
            /\ cmd'.net = cmd.net \/ cmd'.net = Append(cmd.net, "meta")
            /\ \/ /\ cmd'.pc \in {"token", "meta.fetch"}
                  /\ drive'.accessToken = "token"
                  /\ drive'.tokenExpiry - now' \in {3, 61}
               \/ /\ cmd'.pc = "catch"
                  /\ drive' = drive
        /\ cmd.pc \notin {"token", "token.fetch"} =>
            /\ drive' = drive
            /\ TokenCount(cmd'.net) <= TokenCount(cmd.net)
        /\ cmd.failOp # "" => cmd'.pc \notin {"token", "token.fetch"}
      ]_vars

\* three calls in one run: the first exchanged a token that expires at 61,
\* the second read the clock at 56, exactly 5 minutes before, and exchanged
\* again, and the third was answered from the cache
C20_Witness ==
    /\ cmd.pc = "dl.get"
    /\ cmd.net = <<"token", "meta", "token", "meta", "content">>
    /\ now = 56
    /\ drive = [accessToken |-> "token", tokenExpiry |-> 117]

\* the host is a cloud-storage domain or a subdomain of one
CloudStorageHost(host) ==
    /\ host # <<>>
    /\ host[Len(host)] \in {"drive.google.com", "docs.google.com", "drive.usercontent.google.com"}

\* the id of the first pattern, in the contract's order, that occurs in the
\* link; "null" when none does
FirstPatternId(a) ==
    LET order == <<"/file/d/", "/open?id=", "/uc?id=", "id=", "/folders/", "/d/">>
        at(k) == {j \in 1..Len(a.pats) : a.pats[j].pat = order[k]}
        hits == {k \in 1..6 : at(k) # {}}
    IN IF hits = {} THEN "null"
       ELSE LET k == CHOOSE x \in hits : \A y \in hits : x <= y
            IN a.pats[CHOOSE j \in at(k) : TRUE].id

\* C21: the argument is taken as a direct URL exactly when it parses as a
\* URL with scheme http or https whose host is not a cloud-storage domain;
\* otherwise a bare identifier of at least 25 id characters is the file id,
\* else the id of the first matching pattern is, and when nothing matches
\* the invalid-reference message is sent and nothing is downloaded.
C21_Classification ==
    /\ [][cmd.pc = "loaded" =>
            IF input.parses /\ input.scheme \in {"http:", "https:"}
               /\ ~CloudStorageHost(input.host)
            THEN cmd'.pc = "url.head" /\ cmd'.fileId = "null"
            ELSE IF input.idChars /\ input.len >= 25
            THEN cmd'.pc = "token" /\ cmd'.fileId = "id-bare"
            ELSE IF FirstPatternId(input) # "null"
            THEN cmd'.pc = "token" /\ cmd'.fileId = FirstPatternId(input)
            ELSE /\ cmd'.pc = "tg" /\ cmd'.next = "failed"
                 /\ cmd'.req.text = Text("invalid-reference")]_vars
    /\ [](cmd.failOp = "resolve" =>
            cmd.net = <<>> /\ cmd.dl = NoValue /\ cmd.fileId = "null")

\* C22: when a provider never answers, only its attempt is lost: the next
\* provider is attempted in the end, and uploadToPastebin returns in the end.
C22_StallSkipped ==
    /\ (pastePc = "await" /\ pasteIdx = 1) ~> (pasteIdx > 1 \/ pastePc = "returned")
    /\ <>(pastePc = "returned")

\* C24: in the read loop, the request that follows a non-empty chunk consumed
\* without the completion bit asks for the seek target when the engine
\* reported one (0, before the position, or 7, beyond it), and otherwise for
\* the offset of that chunk plus its length.
C24_NextRequest ==
    [][(mi.exists /\ mi.loop = "getChunk" /\ mi.nreads > 0 /\ mi'.nreads = mi.nreads + 1)
         => mi'.lastRead.offset = (IF mi.seekTo # NoSeek THEN mi.seekTo
                                   ELSE mi.lastRead.offset + mi.lastRead.data.len)]_vars

\* the fourth request of an analysis asks for offset 7, the seek target the
\* engine reported after the third chunk
C24_Witness ==
    /\ mi.exists /\ mi.loop = "haveChunk" /\ mi.nreads = 4
    /\ mi.seekTo = 7 /\ mi.lastRead.offset = 7

PassOrder ==
    <<LogOp("analyzeData", "object"), LogOp("reset", "object"), LogOp("analyzeData", "text"),
      LogOp("inform", "text"), LogOp("close", "text")>>

\* C25: analyzeMediaBuffer invokes the engine in the order analyze (object),
\* reset, analyze (text), inform, close, a failure cutting the order short
\* with the close; nothing follows the first analyze before the object pass
\* has settled, and the text pass starts only after it resolved; both passes
\* are given the logical size and the byte window of the call; the result
\* returned is the one the object pass resolved with.
C25_PassOrder ==
    mi.exists =>
        /\ \E n \in 0..Len(PassOrder) :
             \/ anLog = SubSeq(PassOrder, 1, n)
             \/ /\ n < Len(PassOrder) - 1 /\ anPc = "threw"
                /\ anLog = SubSeq(PassOrder, 1, n) \o <<LogOp("close", anLog[Len(anLog)].format)>>
        /\ Len(anLog) > 1 => mi.calls[1].status # "running"
        /\ Len(mi.calls) > 1 => mi.calls[1].status = "resolved" /\ mi.calls[1].result.format = "object"
        /\ Len(mi.calls) <= 2
        /\ mi.loop # "idle" =>
              /\ mi.fileSize = anBuf.size
              /\ mi.format = (IF mi.owner = 1 THEN "object" ELSE "text")
        /\ mi.lastRead # NoValue =>
              /\ mi.lastRead.data.from = mi.lastRead.offset
              /\ mi.lastRead.data.from + mi.lastRead.data.len <= Max(anBuf.len, mi.lastRead.offset)
        /\ anPc = "returned" =>
              /\ anLog = PassOrder
              /\ anOut.result = mi.calls[1].result
              /\ anOut.result.format = "object" /\ anOut.text.format = "text"

\* a window of 10 bytes of a file of 12 went through both passes and the
\* analysis was returned
C25_Witness ==
    /\ anPc = "returned" /\ anBuf = [len |-> 10, size |-> 12]
    /\ mi.calls[1].status = "resolved" /\ mi.calls[2].status = "resolved"
    /\ mi.resets = 3

\* C26: the content GET carries the Range header exactly when the size
\* known before it (the size of the Drive metadata; the Content-Length of a
\* successful HEAD, nothing otherwise) exceeds the cap; whatever the HEAD
\* request gave, the GET is issued next.
C26_RangeIffOverCap ==
    /\ [][cmd.pc = "url.head" /\ cmd' # cmd =>
             /\ cmd'.pc = "url.get"
             /\ cmd'.fileSize \in {0, cmd'.trueSize}]_vars
    /\ [](cmd.pc \in {"url.get", "dl.get"} => (cmd.range <=> cmd.fileSize > MaxDownloadSize))
    /\ [](cmd.pc = "dl.get" => cmd.fileSize > 0)

\* the GET of a direct URL is about to be answered, with a Range header,
\* for a file of 12 bytes
C26_Witness == cmd.pc = "url.get" /\ cmd.range /\ cmd.fileSize = 12

\* the logical size the specification gives for a GET response
SizeByPriority(r) ==
    IF r.total # NoLength THEN r.total
    ELSE IF r.length # NoLength THEN r.length
    ELSE r.bodyLen

\* C27: for a direct URL the logical size of the byte window is the
\* Content-Range total of the GET response when it has one, else its
\* Content-Length, else the length of the body.
C27_SizePriority ==
    [][cmd.pc = "url.body" /\ cmd' # cmd => cmd'.dl.size = SizeByPriority(cmd.resp)]_vars

\* C29: from the acceptance of an analysis to its end the instance's
\* in-progress flag is set, and every analyzeData call made in between is
\* rejected as busy, whatever calls were rejected before it.
C29_BusyUntilEnd ==
    /\ [](mi.exists /\ mi.loop # "idle" => mi.isAnalyzing)
    /\ [][(mi.exists /\ mi.loop # "idle" /\ Len(mi'.calls) = Len(mi.calls) + 1)
            => /\ Last(mi'.calls).status = "rejected"
               /\ Last(mi'.calls).err = BusyError
               /\ mi'.owner = mi.owner]_vars

\* C30: every chunk handed to the engine is the slice of the byte window
\* that starts at the requested offset, no longer than the requested size and
\* ending within the window; a request at or beyond the end of the window
\* gives an empty chunk, and on an empty chunk the loop finalizes without
\* another read.
C30_ChunksWithinWindow ==
    /\ [](mi.exists /\ mi.lastRead # NoValue =>
            LET rd == mi.lastRead IN
            /\ rd.data.from = rd.offset
            /\ rd.data.len >= 0 /\ rd.data.len <= Max(rd.size, 0)
            /\ rd.data.len > 0 => rd.data.from + rd.data.len <= anBuf.len
            /\ rd.offset >= anBuf.len => rd.data.len = 0
            /\ (rd.offset < anBuf.len /\ rd.size > 0) => rd.data.len = Min(rd.size, anBuf.len - rd.offset))
    /\ [][(mi.exists /\ mi.loop = "haveChunk" /\ mi.chunk.len = 0 /\ mi' # mi
            /\ Len(mi'.calls) = Len(mi.calls))
            => /\ mi'.loop = "idle" /\ mi'.nreads = mi.nreads
               /\ mi'.calls[mi.owner].status # "running"]_vars

\* the engine sought to offset 7 of a 3-byte window of a file said to have
\* 12 bytes, was handed an empty chunk, and the analysis ended
C30_Witness ==
    /\ mi.exists /\ anBuf = [len |-> 3, size |-> 12]
    /\ mi.lastRead # NoValue /\ mi.lastRead.offset = 7 /\ mi.lastRead.data.len = 0
    /\ mi.loop = "idle" /\ mi.calls[mi.lastRead.call].status = "resolved"

\* what analyzeMediaBuffer returns for input `in` when nothing else runs
Alone(in) ==
    LET w == in.window
        m1 == RunLoop(AnalyzeData(NewInstance, "promise", "sync", w.size, FALSE), w.len)
        m2 == RunLoop(AnalyzeData([Reset(m1) EXCEPT !.format = "text"],
                                  "promise", "sync", w.size, FALSE), w.len)
    IN [result |-> PassResult(m1), text |-> PassResult(m2), bufferSize |-> w.len,
        exchanges |-> IF in.kind = "drive" THEN 1 ELSE 0]

Owns(r, ref, kind) ==
    ref # NoRef => runs.heap[ref].kind = kind /\ runs.heap[ref].by = r

\* C23: no engine instance, byte window or token cache is shared between two
\* requests; an instance is closed once, by the request that created it, and
\* is not used after that; no call is turned away as busy; and under every
\* interleaving a request returns what it returns when it runs alone.
C23_RunsIsolated ==
    /\ \A r \in Requests :
         /\ Owns(r, runs.run[r].drive, "drive")
         /\ Owns(r, runs.run[r].window, "window")
         /\ Owns(r, runs.run[r].engine, "engine")
         /\ runs.run[r].pc = "returned" => runs.run[r].outcome = Alone(runs.run[r].input)
    /\ \A i \in DOMAIN runs.heap :
         runs.heap[i].kind = "engine" =>
           LET m == runs.heap[i].val
           IN /\ m.afterClose = 0
              /\ m.closes = (IF runs.run[runs.heap[i].by].pc = "returned" THEN 1 ELSE 0)
              /\ \A c \in DOMAIN m.calls : m.calls[c].err # BusyError

\* both requests have returned, on different inputs, after the second one
\* was served between two steps of the first
C23_Witness ==
    /\ \A r \in Requests : runs.run[r].pc = "returned"
    /\ runs.run[1].input # runs.run[2].input
    /\ runs.run[1].engine < runs.run[2].window
    /\ runs.run[2].drive < runs.run[1].window

(***************************************************************************)
(* Properties of the normalizer and of the reports                         *)
(***************************************************************************)
\* C13: a run on a direct URL whose engine result has one 1920x1080 video
\* track and one 2-channel audio track normalizes it to a report with
\* video.resolution "1920x1080" and exactly one audio descriptor, "2ch", and
\* keeps that report up to Done.
C13_HdStereoReport ==
    (input = DirectLink /\ cmd.analysis # NoValue /\ cmd.analysis.result = HdStereo) =>
        /\ cmd.report.video # Null
        /\ cmd.report.video.resolution = <<"1", "9", "2", "0", "x", "1", "0", "8", "0">>
        /\ Len(cmd.report.audio) = 1
        /\ cmd.report.audio[1].channels = <<"2", "ch">>

\* such a run, on a file of 3 MiB, is done
C13_Witness ==
    /\ cmd.pc = "done"
    /\ input = DirectLink
    /\ cmd.analysis.bufferSize = 3 /\ cmd.analysis.bufferSize < MaxDownloadSize
    /\ cmd.analysis.result = HdStereo
    /\ cmd.report.video.resolution = <<"1", "9", "2", "0", "x", "1", "0", "8", "0">>

\* the calls of parseMediaInfo that have returned
Returned == {i \in 1..Len(normCalls) : normCalls[i].report # NoValue}

\* the raw result is one video track of the given width and height
OneVideo(raw, width, height) ==
    raw = [media |-> [track |-> <<[type |-> "Video", Width |-> width, Height |-> height]>>]]

\* C15: the aspect ratio of a 1920x1080 video is "16:9", of a 720x480 video
\* the reduced fraction "3:2", and of a 1920x800 video "2.39:1".
C15_AspectRatios ==
    \A i \in Returned :
        /\ OneVideo(normCalls[i].raw, 1920, 1080) =>
              normCalls[i].report.video.aspectRatio = <<"1", "6", ":", "9">>
        /\ OneVideo(normCalls[i].raw, 720, 480) =>
              normCalls[i].report.video.aspectRatio = <<"3", ":", "2">>
        /\ OneVideo(normCalls[i].raw, 1920, 800) =>
              normCalls[i].report.video.aspectRatio = <<"2", ".", "3", "9", ":", "1">>

\* C15 without its third case
C15_FirstTwoRatios ==
    \A i \in Returned :
        /\ OneVideo(normCalls[i].raw, 1920, 1080) =>
              normCalls[i].report.video.aspectRatio = <<"1", "6", ":", "9">>
        /\ OneVideo(normCalls[i].raw, 720, 480) =>
              normCalls[i].report.video.aspectRatio = <<"3", ":", "2">>

\* the raw result is one general track that reports only the bit rate b
OneBitRate(raw, b) ==
    raw = [media |-> [track |-> <<[type |-> "General", OverallBitRate |-> b]>>]]

\* str is the bit rate b as the contract prints it
PrintsBitRate(str, b) ==
    IF b >= 1000000
    THEN \E n \in 10..200 :
            /\ -50000 <= b - 100000 * n /\ b - 100000 * n <= 50000
            /\ str = Digits(n \div 10) \o <<".", DigitChar[(n % 10) + 1], " ", "Mb/s">>
    ELSE IF b >= 1000
    THEN \E n \in 1..1000 :
            /\ -500 <= b - 1000 * n /\ b - 1000 * n < 500
            /\ str = Digits(n) \o <<" ", "kb/s">>
    ELSE str = Digits(b) \o <<" ", "b/s">>

\* C16: a bit rate b prints as "X.Y Mb/s" (b / 1000000 to one decimal) from
\* 1000000 up, as "N kb/s" with N = b / 1000 rounded to the nearest integer
\* from 1000 up, and as "b b/s" below; 500 prints as "500 b/s", 1500 as
\* "2 kb/s" and 2500000 as "2.5 Mb/s".
C16_BitrateFormat ==
    \A i \in Returned : \A b \in BitRates \ {0} :
        OneBitRate(normCalls[i].raw, b) =>
            /\ PrintsBitRate(normCalls[i].report.general.bitrate, b)
            /\ b = 500 => normCalls[i].report.general.bitrate = <<"5", "0", "0", " ", "b/s">>
            /\ b = 1500 => normCalls[i].report.general.bitrate = <<"2", " ", "kb/s">>
            /\ b = 2500000 =>
                  normCalls[i].report.general.bitrate = <<"2", ".", "5", " ", "Mb/s">>

\* the bit rate 1500 has been printed, as "2 kb/s"
C16_Witness ==
    \E i \in Returned :
        /\ OneBitRate(normCalls[i].raw, 1500)
        /\ normCalls[i].report.general.bitrate = <<"2", " ", "kb/s">>

\* the tracks of a raw result that has a track list
TracksOf(raw) == raw.media.track
HasTracks(raw) == "media" \in DOMAIN raw /\ "track" \in DOMAIN raw.media

OfType(tracks, type) == SelectSeq(tracks, LAMBDA t : t.type = type)

\* C17: the audio descriptors are those of the Audio tracks in the order in
\* which they appear, with index 0, 1, 2, ..., and the subtitle descriptors
\* those of the Text tracks in their order, with index 0, 1, 2, ...,
\* whatever other tracks lie between them.
C17_IndicesInOrder ==
    \A i \in Returned :
        HasTracks(normCalls[i].raw) =>
            LET audios == OfType(TracksOf(normCalls[i].raw), "Audio")
                texts == OfType(TracksOf(normCalls[i].raw), "Text")
                report == normCalls[i].report
            IN /\ Len(report.audio) = Len(audios)
               /\ Len(report.subtitles) = Len(texts)
               /\ \A k \in 1..Len(audios) :
                     /\ report.audio[k].index = k - 1
                     /\ report.audio[k] = AudioOf(audios[k], k - 1)
               /\ \A k \in 1..Len(texts) :
                     /\ report.subtitles[k].index = k - 1
                     /\ report.subtitles[k] = SubtitleOf(texts[k], k - 1)

\* a result with audio, text, audio, text tracks has been normalized: each
\* numbering reached 1 with the other kind in between
C17_Witness ==
    \E i \in Returned :
        /\ normCalls[i].raw = Result(<<Sample.stereo, Sample.utf8, Sample.surround, Sample.ass>>)
        /\ normCalls[i].report.audio[2].index = 1
        /\ normCalls[i].report.audio[2].codec = <<"DTS-HD MA">>
        /\ normCalls[i].report.subtitles[2].index = 1
        /\ normCalls[i].report.subtitles[2].format = <<"ASS">>

\* the label the specification gives an audio track
LabelBySpec(t) ==
    LET format == IF HasText(t, "Format") THEN t.Format ELSE Unknown IN
    IF Contains(format, <<"TrueHD">>) \/ format = <<"MLP FBA">>
    THEN <<"MLP FBA">> \o
         (IF Has(t, "Format_Commercial_IfAny") /\ Contains(t.Format_Commercial_IfAny, <<"Atmos">>)
          THEN <<" (Dolby Atmos)">> ELSE <<>>)
    ELSE IF format = <<"DTS">> /\ Has(t, "Format_Profile") /\ Contains(t.Format_Profile, <<"MA">>)
    THEN <<"DTS-HD MA">>
    ELSE format

\* C28: the codec of every audio descriptor is "MLP FBA" for a format that
\* contains "TrueHD" or is "MLP FBA", followed by " (Dolby Atmos)" when the
\* commercial name mentions Atmos; "DTS-HD MA" for "DTS" with a profile that
\* mentions "MA"; and the format itself otherwise.
C28_AudioLabel ==
    \A i \in Returned :
        HasTracks(normCalls[i].raw) =>
            LET audio == OfType(TracksOf(normCalls[i].raw), "Audio")
            IN \A k \in 1..Len(audio) :
                 normCalls[i].report.audio[k].codec = LabelBySpec(audio[k])

AllUnknown ==
    [container |-> <<"Unknown">>, size |-> <<"Unknown">>, runtime |-> <<"Unknown">>,
     bitrate |-> <<"Unknown">>]

\* C19: every call of the normalizer returns a report; a general track with no
\* optional field gives container, size, runtime and bitrate "Unknown", and
\* a result without a track list gives the default report: general fields
\* "Unknown", no video descriptor, no audio and no subtitle descriptors.
C19_MissingFieldsTolerated ==
    \A i \in Returned :
        /\ normCalls[i].report.filename = <<"video.mkv">>
        /\ normCalls[i].raw = [media |-> [track |-> <<[type |-> "General"]>>]] =>
              normCalls[i].report.general = AllUnknown
        /\ ("media" \notin DOMAIN normCalls[i].raw
             \/ "track" \notin DOMAIN normCalls[i].raw.media) =>
              normCalls[i].report =
                  [filename |-> <<"video.mkv">>, general |-> AllUnknown,
                   video |-> Null, audio |-> <<>>, subtitles |-> <<>>]

\* the bare general track and a result without media have both been
\* normalized
C19_Witness ==
    /\ 1 \in Returned /\ 2 \in Returned
    /\ normCalls[1].raw = [media |-> [track |-> <<[type |-> "General"]>>]]
    /\ normCalls[1].report.general.size = <<"Unknown">>
    /\ "media" \notin DOMAIN normCalls[2].raw
    /\ normCalls[2].report.video = Null

(***************************************************************************)
(* Properties of the plain-text fallback                                   *)
(***************************************************************************)
\* the response of lines 374-381, before the length test
Untruncated(r) ==
    HeaderLen + r.styled + (IF r.paste.success THEN LinkPrefixLen + r.paste.url ELSE 0)

\* the text ends with the whole marker followed by the whole link
EndsWithMarkerAndLink(text, p) ==
    /\ Len(text) >= 2
    /\ text[Len(text) - 1] = [seg |-> "marker", len |-> 27, of |-> 27]
    /\ text[Len(text)] = [seg |-> "link", len |-> 25 + p.url, of |-> 25 + p.url]

\* C14: every plain-text message handed to Telegram is at most 4096
\* characters long, and when report and link together would exceed 4096 the
\* message ends with the truncation marker followed by the whole link.
C14_TextWithinCap ==
    (reply # NoValue /\ reply.pc = "sent") =>
        /\ Length(reply.sent) <= 4096
        /\ (reply.paste.success /\ Untruncated(reply) > 4096) =>
              EndsWithMarkerAndLink(reply.sent, reply.paste)

\* C14, for transcript links of at most 4044 characters
C14_ShortLinkWithinCap ==
    (reply # NoValue /\ reply.pc = "sent" /\ (reply.paste.success => reply.paste.url <= 4044)) =>
        /\ Length(reply.sent) <= 4096
        /\ (reply.paste.success /\ Untruncated(reply) > 4096) =>
              EndsWithMarkerAndLink(reply.sent, reply.paste)

====
